---- MODULE Spec2Model ----
(***************************************************************************)
(* Adversa core: the durable run orchestrator (AdversaRunWorkflow and its  *)
(* WorkflowEngine), and the execute-phase operation (run_phase_activity)   *)
(* with the run directory it reads and writes.                             *)
(*                                                                         *)
(* Spec      the workflow coroutine between its awaits, the four signal    *)
(*           handlers, and the outcomes of the phase activity as the       *)
(*           workflow sees them.                                           *)
(* DiskSpec  runs of the phase loop over one run directory: the steps of   *)
(*           run_phase_activity on output.json, the index and the manifest.*)
(***************************************************************************)
EXTENDS Integers, Sequences, FiniteSets, TLC

None == "None"

\* An optional message (str | None) is a sequence holding the message, if any;
\* a message is its sequence of words.
NoMessage == <<>>

\* ------------------------------------------------------------------ bounds

\* Config-required failures one run may see (each one re-attempts a phase).
MaxConfigWaits == 2

\* Runs started on one run directory.
MaxRuns == 2

\* Failed activity attempts on one run directory.
MaxFaults == 3

\* ------------------------------------------------------------------ data

\* state/models.py: PHASES
PHASES == <<"intake", "prerecon", "recon", "vuln", "report">>

Range(s) == {s[k] : k \in 1..Len(s)}

NoDuplicates(s) == \A k, l \in 1..Len(s) : k # l => s[k] # s[l]

\* Position of a phase in the fixed sequence (0 when it is not a phase).
PhaseIndex(p) == IF p \in Range(PHASES) THEN CHOOSE k \in 1..Len(PHASES) : PHASES[k] = p ELSE 0

\* state/models.py: WorkflowStatus()
WorkflowStatus ==
    [current_phase |-> None,
     completed_phases |-> <<>>,
     artifact_index_path |-> None,
     last_error |-> NoMessage,
     waiting_reason |-> None,
     waiting_for_config |-> FALSE,
     paused |-> FALSE,
     canceled |-> FALSE]

\* ------------------------------------------------------------------ WorkflowEngine

\* pause() as if it also reset the error, the way mark_config_updated does
pause_clears_error(s) ==
    IF ~s.canceled THEN [s EXCEPT !.paused = TRUE, !.last_error = NoMessage] ELSE s

\* pause() as a toggle
pause_toggles(s) == IF ~s.canceled THEN [s EXCEPT !.paused = ~s.paused] ELSE s

\* pause() without the canceled test
pause_after_cancel(s) == [s EXCEPT !.paused = TRUE]

pause(s) == IF ~s.canceled THEN [s EXCEPT !.paused = TRUE] ELSE s

\* resume() as if it also ended the config wait
resume_clears_waiting(s) ==
    IF ~s.canceled
    THEN [s EXCEPT !.paused = FALSE, !.waiting_for_config = FALSE, !.waiting_reason = None]
    ELSE s

resume(s) == IF ~s.canceled THEN [s EXCEPT !.paused = FALSE] ELSE s

\* cancel() that leaves the pause flag alone
cancel_keeps_paused(s) ==
    [s EXCEPT !.canceled = TRUE,
              !.waiting_for_config = FALSE,
              !.waiting_reason = None]

\* cancel() that forgets the reason
cancel_keeps_reason(s) ==
    [s EXCEPT !.canceled = TRUE,
              !.paused = FALSE,
              !.waiting_for_config = FALSE]

cancel(s) ==
    [s EXCEPT !.canceled = TRUE,
              !.paused = FALSE,
              !.waiting_for_config = FALSE,
              !.waiting_reason = None]

\* mark_waiting() without the flag
mark_waiting_no_flag(s, reason) == [s EXCEPT !.waiting_reason = reason, !.paused = FALSE]

mark_waiting(s, reason) ==
    [s EXCEPT !.waiting_for_config = TRUE,
              !.waiting_reason = reason,
              !.paused = FALSE]

mark_config_updated(s) ==
    [s EXCEPT !.waiting_for_config = FALSE,
              !.waiting_reason = None,
              !.last_error = NoMessage]

start_phase(s, phase) == [s EXCEPT !.current_phase = phase]

\* record_completion() without the membership test
record_completion_always_appends(s, phase) ==
    [s EXCEPT !.current_phase = phase,
              !.completed_phases = Append(s.completed_phases, phase),
              !.last_error = NoMessage]

record_completion(s, phase) ==
    [s EXCEPT !.current_phase = phase,
              !.completed_phases =
                  IF phase \notin Range(s.completed_phases)
                  THEN Append(s.completed_phases, phase)
                  ELSE s.completed_phases,
              !.last_error = NoMessage]

\* ------------------------------------------------------------------ failures

\* A failure message is the sequence of its words; str.lower() maps each word.
LowerWord(w) ==
    CASE w = "Missing" -> "missing"
      [] w = "Unauthorized" -> "unauthorized"
      [] w = "OPENAI_API_KEY" -> "openai_api_key"
      [] w = "Blocked" -> "blocked"
      [] w = "Transient" -> "transient"
      [] w = "Invalid" -> "invalid"
      [] OTHER -> w

Lower(msg) == [k \in 1..Len(msg) |-> LowerWord(msg[k])]

\* needle in haystack, both word sequences
Contains(haystack, needle) ==
    \E k \in 0..(Len(haystack) - Len(needle)) :
        \A j \in 1..Len(needle) : haystack[k + j] = needle[j]

\* The failures execute_activity raises into the workflow: ApplicationError
\* values carry a type; any other exception only its text.
Failures ==
    {[app |-> TRUE, type |-> "config_required", msg |-> <<"Missing", "env", "var", "OPENAI_API_KEY">>],
     [app |-> TRUE, type |-> "fatal", msg |-> <<"Blocked", "by", "avoid", "rule">>],
     [app |-> TRUE, type |-> "fatal", msg |-> <<"401", "Unauthorized">>],
     [app |-> TRUE, type |-> "transient", msg |-> <<"Transient", "provider", "failure">>],
     [app |-> TRUE, type |-> "invalid_phase_output", msg |-> <<"Invalid", "phase", "output">>],
     [app |-> FALSE, type |-> None, msg |-> <<"401", "Unauthorized">>],
     [app |-> FALSE, type |-> None, msg |-> <<"Missing", "env", "var", "OPENAI_API_KEY">>],
     [app |-> FALSE, type |-> None, msg |-> <<"config_required">>],
     [app |-> FALSE, type |-> None, msg |-> <<"unexpected", "failure">>]}

is_config_required_error(exc) ==
    IF exc.app
    THEN exc.type = "config_required"
    ELSE LET lowered == Lower(exc.msg) IN
         \/ Contains(lowered, <<"config_required">>)
         \/ Contains(lowered, <<"missing", "env", "var">>)
         \/ Contains(lowered, <<"401">>)

\* The results run_phase_activity returns.
ActivityResults == {"completed", "skipped"}

\* ------------------------------------------------------------------ run directory

\* state/models.py: ManifestState(...), the fields run_phase_activity touches
ManifestState == [current_phase |-> None, completed_phases |-> <<>>, last_error |-> NoMessage]

\* A fresh <root>/<workspace>/<run_id>: no phase file, no index, no manifest
\* (manifest holds what `read_manifest() or ManifestState(...)` yields), and no
\* agent_runtime_initialized event in the audit log (agent: the phases that have one).
EmptyRunDirectory ==
    [files |-> {}, valid |-> {}, index |-> {}, agent |-> {},
     has_manifest |-> FALSE, manifest |-> ManifestState]

\* store.py write_phase_artifacts: the three files every phase writes
CoreFiles == {"output.json", "summary.md", "coverage.json"}

\* activities.py PHASE_EXTRA_ARTIFACTS, plan.json, and _write_prerecon_artifacts
ExtraFiles(phase) ==
    CASE phase = "intake" -> {"scope.json", "coverage_intake.json", "plan.json"}
      [] phase = "prerecon" -> {"pre_recon.json"}
      [] phase = "recon" -> {"system_map.json", "attack_surface.json"}
      [] phase = "vuln" -> {"findings.json", "risk_register.json"}
      [] phase = "report" -> {"report.md", "exec_summary.md", "retest_plan.json"}
      [] OTHER -> {}

EvidenceFile(phase) == IF phase = "prerecon" THEN "evidence/baseline.json" ELSE "evidence/stub.txt"

Paths(phase, names) == {<<phase, n>> : n \in names}

\* state/schemas.py validate_phase_output: reading a missing file raises, and
\* so does json.loads or PhaseOutput.model_validate on content that is no
\* PhaseOutput; every exception yields False.
validate_phase_output(d, phase) ==
    IF <<phase, "output.json">> \notin d.files
    THEN FALSE
    ELSE phase \in d.valid

\* should_skip_phase that forgets the force flag
should_skip_ignores_force(d, phase, force) ==
    <<phase, "output.json">> \in d.files /\ validate_phase_output(d, phase)

\* should_skip_phase that does not validate the file it finds
should_skip_when_exists(d, phase, force) ==
    IF force
    THEN FALSE
    ELSE <<phase, "output.json">> \in d.files

\* store.py should_skip_phase
should_skip_phase(d, phase, force) ==
    IF force
    THEN FALSE
    ELSE <<phase, "output.json">> \in d.files /\ validate_phase_output(d, phase)

\* ------------------------------------------------------------------ index.json

\* Run-relative paths of artifact files, listed in ascending string order.
IndexPaths == <<"intake/coverage.json", "intake/evidence/stub.txt", "intake/output.json">>

\* Position of a path in the string order.
PathRank(path) == CHOOSE k \in 1..Len(IndexPaths) : IndexPaths[k] = path

\* What a file may hold.
Contents == {"one", "two"}

\* store.py _sha256: the digest of a content; different contents, different digests.
sha256(content) == <<"sha256", content>>

\* state/models.py ArtifactEntry
ArtifactEntry(path, sha) == [path |-> path, sha256 |-> sha]

\* store.py 46: existing = {x.path: x for x in index.files}
ExistingOf(files) ==
    [p \in {files[k].path : k \in 1..Len(files)} |->
        files[CHOOSE k \in 1..Len(files) :
                  /\ files[k].path = p
                  /\ \A l \in (k + 1)..Len(files) : files[l].path # p]]

RECURSIVE HashPaths(_, _, _)
\* store.py 47-50: the loop over paths, each hashed as the file is now
HashPaths(existing, files_now, paths) ==
    IF paths = <<>>
    THEN existing
    ELSE LET rel == Head(paths)
             entry == ArtifactEntry(rel, sha256(files_now[rel]))
             updated == [p \in DOMAIN existing \cup {rel} |->
                            IF p = rel THEN entry ELSE existing[p]]
         IN HashPaths(updated, files_now, Tail(paths))

RECURSIVE SortedByPath(_)
\* store.py 52: sorted(existing.values(), key=lambda x: x.path)
SortedByPath(existing) ==
    IF DOMAIN existing = {}
    THEN <<>>
    ELSE LET first == CHOOSE p \in DOMAIN existing :
                          \A q \in DOMAIN existing : PathRank(p) <= PathRank(q)
             rest == [p \in DOMAIN existing \ {first} |-> existing[p]]
         IN <<existing[first]>> \o SortedByPath(rest)

RECURSIVE EntriesOf(_, _)
EntriesOf(files_now, paths) ==
    IF paths = <<>>
    THEN <<>>
    ELSE <<ArtifactEntry(Head(paths), sha256(files_now[Head(paths)]))>>
             \o EntriesOf(files_now, Tail(paths))

\* append_index that adds an entry per path to the end of the list
append_index_appends(files, files_now, paths) == files \o EntriesOf(files_now, paths)

\* store.py 44-53 append_index on the entries of index.json
append_index_files(files, files_now, paths) ==
    SortedByPath(HashPaths(ExistingOf(files), files_now, paths))

\* Longest list of paths one call passes.
MaxPathsPerCall == 2

\* The lists of paths a call may pass: files that exist, repeats allowed.
PathLists(files_now) ==
    LET there == {p \in Range(IndexPaths) : files_now[p] # None} IN
    UNION {[1..n -> there] : n \in 1..MaxPathsPerCall}

\* ------------------------------------------------------------------ policy engine

\* security/rules.py HARD_BLOCK_TARGET_TYPES
HARD_BLOCK_TARGET_TYPES == {"phase", "host", "subdomain", "repo_path"}

\* security/rules.py _phase_applies
phase_applies(rule, phase) == rule.phases = {} \/ phase \in rule.phases

\* security/rules.py AnalyzerSpec (the fields the rules read)
AnalyzerSpec(name, tags, surfaces) == [name |-> name, tags |-> tags, surfaces |-> surfaces]

\* security/rules.py PHASE_ANALYZERS, each phase's analyzers in registry order
PHASE_ANALYZERS ==
    [phase \in Range(PHASES) |->
        CASE phase = "intake" ->
               <<AnalyzerSpec("scope_planner", {"planning", "scope"}, {"host", "subdomain", "path"}),
                 AnalyzerSpec("repo_inventory", {"filesystem", "planning"}, {"repo_path"})>>
          [] phase = "prerecon" ->
               <<AnalyzerSpec("repo_inventory", {"filesystem", "planning"}, {"repo_path"}),
                 AnalyzerSpec("baseline_metadata", {"metadata", "planning"}, {"host", "subdomain", "path"})>>
          [] phase = "recon" ->
               <<AnalyzerSpec("attack_surface_mapper", {"network", "discovery"},
                              {"host", "subdomain", "path", "method"}),
                 AnalyzerSpec("auth_model_builder", {"auth", "modeling"}, {"host", "path", "method"}),
                 AnalyzerSpec("data_flow_mapper", {"data-flow", "modeling"}, {"path", "method"})>>
          [] phase = "vuln" ->
               <<AnalyzerSpec("static_safe_checks", {"safe", "code"}, {"repo_path", "path", "method"}),
                 AnalyzerSpec("dependency_review", {"dependencies", "safe"}, {"repo_path"}),
                 AnalyzerSpec("config_review", {"configuration", "safe"}, {"repo_path", "path"})>>
          [] OTHER ->
               <<AnalyzerSpec("finding_summarizer", {"reporting", "summary"}, {"host", "path", "repo_path"}),
                 AnalyzerSpec("retest_planner", {"reporting", "planning"},
                              {"host", "path", "repo_path", "method"})>>]

\* The analyzer names in ascending string order, as sorted() compares them.
AnalyzerNames ==
    <<"attack_surface_mapper", "auth_model_builder", "baseline_metadata", "config_review",
      "data_flow_mapper", "dependency_review", "finding_summarizer", "repo_inventory",
      "retest_planner", "scope_planner", "static_safe_checks">>

NameRank(name) == CHOOSE k \in 1..Len(AnalyzerNames) : AnalyzerNames[k] = name

\* security/rules.py RuntimeTarget
RuntimeTarget(phase, host, subdomain, path, repo_path, method) ==
    [phase |-> phase, host |-> host, subdomain |-> subdomain, path |-> path,
     repo_path |-> repo_path, method |-> method]

\* security/rule_compiler.py CompiledRule; phases is the set of its phases tuple.
CompiledRule(action, target_type, target, phases, description) ==
    [action |-> action, target_type |-> target_type, target |-> target,
     phases |-> phases, description |-> description]

\* str.lower() and str.upper() on the rule targets used below
LowerStr(s) == IF s = "WWW.EXAMPLE.COM" THEN "www.example.com" ELSE s

UpperStr(s) == IF s = "get" THEN "GET" ELSE s

\* fnmatch.fnmatch(name, pat) for the patterns used below: the wildcard "*" and
\* literal patterns, compared case-sensitively.
fnmatch(name, pat) == pat = "*" \/ name = pat

\* security/rules.py _matches_runtime_target
matches_target(rule, target) ==
    CASE rule.target_type = "phase" -> rule.target = target.phase
      [] rule.target_type = "host" -> fnmatch(target.host, LowerStr(rule.target))
      [] rule.target_type = "subdomain" -> fnmatch(target.subdomain, LowerStr(rule.target))
      [] rule.target_type = "path" -> fnmatch(target.path, rule.target)
      [] rule.target_type = "repo_path" -> fnmatch(target.repo_path, rule.target)
      [] rule.target_type = "method" ->
             target.method # None /\ fnmatch(target.method, UpperStr(rule.target))
      [] OTHER -> FALSE

\* security/rules.py _blocked_reason, as the sequence of the message's parts
blocked_reason_for(rule, target) ==
    LET boundary == CASE rule.target_type = "phase" -> target.phase
                      [] rule.target_type = "host" -> target.host
                      [] rule.target_type = "subdomain" -> target.subdomain
                      [] rule.target_type = "path" -> target.path
                      [] rule.target_type = "repo_path" -> target.repo_path
                      [] rule.target_type = "method" ->
                             IF target.method = None THEN "" ELSE target.method
                      [] OTHER -> rule.target
    IN IF rule.description # None
       THEN <<"Phase", target.phase, "blocked by avoid rule", rule.description,
              "on", rule.target_type, boundary>>
       ELSE <<"Phase", target.phase, "blocked by avoid rule", rule.target,
              "on", rule.target_type>>

\* security/rules.py _to_applied_rule
to_applied_rule(rule) ==
    [action |-> rule.action, target_type |-> rule.target_type, target |-> rule.target,
     description |-> rule.description]

RECURSIVE dedupe_rules(_)
\* security/rules.py _dedupe_rules: the first occurrence of every applied rule
dedupe_rules(applied) ==
    IF applied = <<>>
    THEN <<>>
    ELSE LET front == dedupe_rules(SubSeq(applied, 1, Len(applied) - 1))
             last == applied[Len(applied)]
         IN IF last \in Range(front) THEN front ELSE Append(front, last)

\* security/rules.py RuleDecision
RuleDecision(selected_analyzers, applied_rules, reason) ==
    [selected_analyzers |-> selected_analyzers, applied_rules |-> applied_rules,
     blocked_reason |-> reason]

\* The three tests of _is_avoided and _focus_score on one rule and one analyzer.
NamesAnalyzer(rule, analyzer) == rule.target_type = "analyzer" /\ rule.target = analyzer.name

NamesTag(rule, analyzer) == rule.target_type = "tag" /\ rule.target \in analyzer.tags

MatchesSurface(rule, analyzer, target) ==
    rule.target_type \in analyzer.surfaces /\ matches_target(rule, target)

\* _is_avoided without the phase scope test
is_avoided_any_phase(analyzer, target, rules) ==
    LET hits == {k \in 1..Len(rules) :
                    /\ rules[k].action = "avoid"
                    /\ \/ NamesAnalyzer(rules[k], analyzer)
                       \/ NamesTag(rules[k], analyzer)
                       \/ MatchesSurface(rules[k], analyzer, target)}
    IN IF hits = {} THEN 0 ELSE CHOOSE k \in hits : \A l \in hits : k <= l

\* security/rules.py _is_avoided: the position of the rule that returns True (0: none)
is_avoided(analyzer, target, rules) ==
    LET hits == {k \in 1..Len(rules) :
                    /\ rules[k].action = "avoid"
                    /\ phase_applies(rules[k], target.phase)
                    /\ \/ NamesAnalyzer(rules[k], analyzer)
                       \/ NamesTag(rules[k], analyzer)
                       \/ MatchesSurface(rules[k], analyzer, target)}
    IN IF hits = {} THEN 0 ELSE CHOOSE k \in hits : \A l \in hits : k <= l

\* What one rule adds to an analyzer's score in _focus_score (0: not applied).
FocusPoints(rule, analyzer, target) ==
    IF rule.action # "focus" \/ ~phase_applies(rule, target.phase) THEN 0
    ELSE IF NamesAnalyzer(rule, analyzer) THEN 2
    ELSE IF NamesTag(rule, analyzer) THEN 2
    ELSE IF MatchesSurface(rule, analyzer, target) THEN 1
    ELSE 0

RECURSIVE focus_score(_, _, _)
\* security/rules.py _focus_score: the score
focus_score(analyzer, target, rules) ==
    IF rules = <<>>
    THEN 0
    ELSE FocusPoints(Head(rules), analyzer, target) + focus_score(analyzer, target, Tail(rules))

RECURSIVE FocusApplied(_, _, _)
\* security/rules.py _focus_score: the rules it appends to applied_rules
FocusApplied(analyzer, target, rules) ==
    IF rules = <<>>
    THEN <<>>
    ELSE (IF FocusPoints(Head(rules), analyzer, target) > 0
          THEN <<to_applied_rule(Head(rules))>>
          ELSE <<>>) \o FocusApplied(analyzer, target, Tail(rules))

RECURSIVE Remaining(_, _, _)
\* rules.py 110: the analyzers _is_avoided returns False for, in registry order
Remaining(analyzers, target, rules) ==
    IF analyzers = <<>>
    THEN <<>>
    ELSE (IF is_avoided(Head(analyzers), target, rules) = 0 THEN <<Head(analyzers)>> ELSE <<>>)
             \o Remaining(Tail(analyzers), target, rules)

RECURSIVE AvoidApplied(_, _, _)
\* rules.py 110: the rules the calls of _is_avoided append to applied_rules
AvoidApplied(analyzers, target, rules) ==
    IF analyzers = <<>>
    THEN <<>>
    ELSE LET k == is_avoided(Head(analyzers), target, rules) IN
         (IF k = 0 THEN <<>> ELSE <<to_applied_rule(rules[k])>>)
             \o AvoidApplied(Tail(analyzers), target, rules)

RECURSIVE AllFocusApplied(_, _, _)
\* rules.py 111: the rules the calls of _focus_score append to applied_rules
AllFocusApplied(remaining, target, rules) ==
    IF remaining = <<>>
    THEN <<>>
    ELSE FocusApplied(Head(remaining), target, rules)
             \o AllFocusApplied(Tail(remaining), target, rules)

\* The sort key (-focus_scores[name], name) of rules.py 112 compared: a before b.
KeyBefore(a, b, target, rules) ==
    LET sa == focus_score(a, target, rules)
        sb == focus_score(b, target, rules)
    IN sa > sb \/ (sa = sb /\ NameRank(a.name) < NameRank(b.name))

\* the analyzers left in the order the registry lists them
SortedByRegistryOrder(remaining, target, rules) == remaining

RECURSIVE SortedByKey(_, _, _)
\* rules.py 112: sorted(remaining, key=...)
SortedByKey(remaining, target, rules) ==
    IF remaining = <<>>
    THEN <<>>
    ELSE LET k == CHOOSE i \in 1..Len(remaining) :
                      \A j \in 1..Len(remaining) :
                          j # i => KeyBefore(remaining[i], remaining[j], target, rules)
             rest == [j \in 1..(Len(remaining) - 1) |->
                         IF j < k THEN remaining[j] ELSE remaining[j + 1]]
         IN <<remaining[k]>> \o SortedByKey(rest, target, rules)

\* a hard block by an avoid rule of any target type
HardBlockAnyType(target, rules) ==
    LET hits == {k \in 1..Len(rules) :
                    /\ phase_applies(rules[k], target.phase)
                    /\ rules[k].action = "avoid"
                    /\ matches_target(rules[k], target)}
    IN IF hits = {} THEN 0 ELSE CHOOSE k \in hits : \A l \in hits : k <= l

\* rules.py 95-108: the position of the first rule that hard-blocks (0: none)
HardBlock(target, rules) ==
    LET hits == {k \in 1..Len(rules) :
                    /\ phase_applies(rules[k], target.phase)
                    /\ rules[k].action = "avoid"
                    /\ rules[k].target_type \in HARD_BLOCK_TARGET_TYPES
                    /\ matches_target(rules[k], target)}
    IN IF hits = {} THEN 0 ELSE CHOOSE k \in hits : \A l \in hits : k <= l

\* evaluate_rules that filters the registry's own list in place
evaluate_rules_in_place(reg, target, rules) ==
    LET k == HardBlock(target, rules)
        remaining == Remaining(reg[target.phase], target, rules)
    IN IF k # 0
       THEN [decision |-> RuleDecision(<<>>, <<to_applied_rule(rules[k])>>,
                                       <<blocked_reason_for(rules[k], target)>>),
             registry |-> reg, rules |-> rules]
       ELSE [decision |->
                 RuleDecision([i \in 1..Len(remaining) |->
                                  SortedByKey(remaining, target, rules)[i].name],
                              dedupe_rules(AvoidApplied(reg[target.phase], target, rules)
                                           \o AllFocusApplied(remaining, target, rules)),
                              NoMessage),
             registry |-> [reg EXCEPT ![target.phase] = remaining], rules |-> rules]

\* security/rules.py 91-116 evaluate_rules on the registry reg: the decision it
\* returns, and the registry and the rule list as the call leaves them.
EvaluateRules(reg, target, rules) ==
    LET k == HardBlock(target, rules)
        analyzers == reg[target.phase]
        remaining == Remaining(analyzers, target, rules)
        ordered == SortedByKey(remaining, target, rules)
    IN IF k # 0
       THEN [decision |-> RuleDecision(<<>>, dedupe_rules(<<to_applied_rule(rules[k])>>),
                                       <<blocked_reason_for(rules[k], target)>>),
             registry |-> reg, rules |-> rules]
       ELSE [decision |->
                 RuleDecision([i \in 1..Len(ordered) |-> ordered[i].name],
                              dedupe_rules(AvoidApplied(analyzers, target, rules)
                                           \o AllFocusApplied(remaining, target, rules)),
                              NoMessage),
             registry |-> reg, rules |-> rules]

\* security/rules.py RuntimeBoundaryDecision
RuntimeBoundaryDecision(applied_rules, reason, score) ==
    [applied_rules |-> applied_rules, blocked_reason |-> reason, focus_score |-> score]

RECURSIVE BoundaryScan(_, _, _, _)
\* rules.py 123-139: the loop of evaluate_runtime_boundary from one rule on
BoundaryScan(target, rules, applied, score) ==
    IF rules = <<>>
    THEN RuntimeBoundaryDecision(dedupe_rules(applied), NoMessage, score)
    ELSE LET rule == Head(rules) IN
         IF ~phase_applies(rule, target.phase) \/ ~matches_target(rule, target)
         THEN BoundaryScan(target, Tail(rules), applied, score)
         ELSE IF rule.action = "avoid"
         THEN RuntimeBoundaryDecision(dedupe_rules(Append(applied, to_applied_rule(rule))),
                                      <<blocked_reason_for(rule, target)>>, score)
         ELSE IF rule.action = "focus"
         THEN BoundaryScan(target, Tail(rules), Append(applied, to_applied_rule(rule)), score + 1)
         ELSE BoundaryScan(target, Tail(rules), applied, score)

\* The matching in-scope rules of one action, by position.
MatchingRules(target, rules, action) ==
    {k \in 1..Len(rules) :
        /\ rules[k].action = action
        /\ phase_applies(rules[k], target.phase)
        /\ matches_target(rules[k], target)}

\* The rules a tool call can be told apart by: those not on a hard-block type.
CallLevelRule(rule) == rule.target_type \notin HARD_BLOCK_TARGET_TYPES

\* a boundary check that leaves the hard-block target types to the phase-level
\* decision and scans the other rules only
evaluate_runtime_boundary_call_level(target, rules) ==
    BoundaryScan(target, SelectSeq(rules, CallLevelRule), <<>>, 0)

\* a boundary check that scores the focus rules of the whole list before it
\* looks for an avoid rule
evaluate_runtime_boundary_scores_all(target, rules) ==
    LET d == BoundaryScan(target, rules, <<>>, 0) IN
    [d EXCEPT !.focus_score = Cardinality(MatchingRules(target, rules, "focus"))]

\* security/rules.py 119-139 evaluate_runtime_boundary
evaluate_runtime_boundary(target, rules) == BoundaryScan(target, rules, <<>>, 0)

\* ------------------------------------------------------------------ policy inputs

\* The runtime targets evaluated: https://www.example.com/admin called with GET,
\* and https://www.example.com/ without a method, in the recon and vuln phases.
Targets ==
    {RuntimeTarget(phase, "www.example.com", "www", c[1], "repos/target", c[2]) :
        phase \in {"recon", "vuln"}, c \in {<<"/admin", "GET">>, <<"/", None>>}}

\* The compiled rules a rule list is made of: every target type, both actions,
\* scoped and unscoped, matching and not.
RuleUniverse ==
    {CompiledRule("avoid", "phase", "vuln", {}, None),
     CompiledRule("avoid", "host", "WWW.EXAMPLE.COM", {"recon"}, "marketing site"),
     CompiledRule("avoid", "subdomain", "api", {}, None),
     CompiledRule("avoid", "repo_path", "*", {"vuln"}, None),
     CompiledRule("avoid", "path", "/admin", {}, None),
     CompiledRule("avoid", "method", "get", {"recon"}, "no reads"),
     CompiledRule("avoid", "analyzer", "dependency_review", {}, None),
     CompiledRule("avoid", "tag", "modeling", {"vuln"}, None),
     CompiledRule("avoid", "tag", "safe", {"recon"}, None),
     CompiledRule("focus", "path", "/admin", {}, None),
     CompiledRule("focus", "repo_path", "*", {}, None),
     CompiledRule("focus", "host", "WWW.EXAMPLE.COM", {"vuln"}, None),
     CompiledRule("focus", "method", "get", {}, None),
     CompiledRule("focus", "analyzer", "auth_model_builder", {}, None),
     CompiledRule("focus", "tag", "modeling", {"recon"}, None),
     CompiledRule("focus", "tag", "safe", {}, None)}

\* Longest rule list evaluated.
MaxRules == 2

\* Most evaluations of one (target, rules).
MaxEvaluations == 2

\* ------------------------------------------------------------------ guardrail middleware

\* A tool call as the agent issues it: tool_call["id"], ["name"] and the
\* arguments the guardrail reads (None: the argument is not given).
ToolCall(id, name, path, method, file_path, pattern) ==
    [id |-> id, name |-> name, path |-> path, method |-> method,
     file_path |-> file_path, pattern |-> pattern]

\* The URL string a tool call's path argument stands for (middleware.py 98-102):
\* an absolute URL is kept, a path is joined to the context's base URL.
UrlOf(path) ==
    CASE path = None -> "https://www.example.com/"
      [] path = "/" -> "https://www.example.com/"
      [] path = "/admin" -> "https://www.example.com/admin"
      [] OTHER -> path

\* urlparse(url).hostname, lower-cased by urlparse
Hostname(url) ==
    IF url = "https://API.example.com/admin" THEN "api.example.com" ELSE "www.example.com"

\* urlparse(url).path or "/"
UrlPath(url) == IF url = "https://www.example.com/" THEN "/" ELSE "/admin"

\* security/rules.py _extract_subdomain
extract_subdomain(host) == IF host = "api.example.com" THEN "api" ELSE "www"

\* security/rules.py RuntimeTarget.from_inputs
from_inputs(phase, url, repo_path, method) ==
    RuntimeTarget(phase, Hostname(url), extract_subdomain(Hostname(url)), UrlPath(url), repo_path,
                  IF method = None THEN None ELSE UpperStr(method))

\* middleware.py 96-119 _normalize_tool_call: the boundary's url, repo_path and method
normalize_tool_call(context, request) ==
    LET target == from_inputs(context.phase, UrlOf(request.path), context.repo_path, request.method)
    IN [tool |-> request.name, host |-> target.host, subdomain |-> target.subdomain,
        path |-> target.path, repo_path |-> target.repo_path, method |-> target.method,
        url |-> UrlOf(request.path)]

\* middleware.py 147-162 _is_allowed_repo_virtual_path for the prefix /repo
is_allowed_repo_virtual_path(candidate) ==
    CASE candidate = "" -> TRUE
      [] candidate \in {"**/*.py", "*.py"} -> FALSE
      [] candidate \in {"/repo/app.py", "/repo/*.py"} -> TRUE
      [] OTHER -> FALSE

\* middleware.py 127-135: the candidate paths of a request, in order
candidate_paths(request) ==
    <<request.file_path, request.path>>
        \o (IF request.name = "glob" THEN <<request.pattern>> ELSE <<>>)

\* middleware.py 121-145 _check_filesystem_boundary: the violation, if any
check_filesystem_boundary(mw, request) ==
    IF mw.allowed_repo_virtual_prefix = None
    THEN NoMessage
    ELSE LET cands == candidate_paths(request)
             bad == {k \in 1..Len(cands) :
                        cands[k] # None /\ ~is_allowed_repo_virtual_path(cands[k])}
         IN IF bad = {}
            THEN NoMessage
            ELSE LET k == CHOOSE i \in bad : \A j \in bad : i <= j IN
                 <<<<"Tool", request.name, "path", cands[k],
                     "is outside the authorized repo prefix", mw.allowed_repo_virtual_prefix>>>>

\* middleware.py 164-170 _blocked_tool_message
blocked_tool_message(request, reason) ==
    [status |-> "error", content |-> <<"Tool call blocked by policy:", reason>>,
     tool_call_id |-> request.id, name |-> request.name]

\* What the wrapped handler returns for a request.
HandlerResult(request) ==
    [status |-> "success", content |-> <<"ok", <<>>>>,
     tool_call_id |-> request.id, name |-> request.name]

\* middleware.py 180-191: the payload of a denial
DenialPayload(request, target, reason, applied_rules) ==
    [event_type |-> "agent_tool_call_blocked", tool |-> request.name, tool_call |-> request,
     runtime_target |-> target, reason |-> reason, applied_rules |-> applied_rules]

\* middleware.py 193: the evidence file of a tool call
EvidenceName(request) == <<"agent-guardrail-", request.id, ".json">>

\* middleware.py 172-194 _record_denial on the audit log and the evidence directory
record_denial(log, request, target, reason, applied_rules) ==
    LET payload == DenialPayload(request, target, reason, applied_rules) IN
    [audit |-> Append(log.audit, payload),
     evidence |-> [n \in DOMAIN log.evidence \cup {EvidenceName(request)} |->
                      IF n = EvidenceName(request) THEN payload ELSE log.evidence[n]]]

\* The outcome of one wrap_tool_call: the response, the requests handed to the
\* handler, and the audit log and evidence directory afterwards.
Outcome(response, handled, log) == [response |-> response, handled |-> handled, log |-> log]

\* wrap_tool_call that runs the handler before it evaluates the boundary
wrap_tool_call_handler_first(mw, request, log) ==
    LET target == from_inputs(mw.context.phase, normalize_tool_call(mw.context, request).url,
                              normalize_tool_call(mw.context, request).repo_path,
                              normalize_tool_call(mw.context, request).method)
        decision == evaluate_runtime_boundary(target, mw.compiled_rules)
    IN IF decision.blocked_reason # NoMessage
       THEN Outcome(blocked_tool_message(request, decision.blocked_reason[1]), <<request>>,
                    record_denial(log, request, target, decision.blocked_reason[1],
                                  decision.applied_rules))
       ELSE Outcome(HandlerResult(request), <<request>>, log)

\* middleware.py 57-76 RulesGuardrailMiddleware.wrap_tool_call
wrap_tool_call(mw, request, log) ==
    LET filesystem_violation == check_filesystem_boundary(mw, request) IN
    IF filesystem_violation # NoMessage
    THEN Outcome(blocked_tool_message(request, filesystem_violation[1]), <<>>, log)
    ELSE LET boundary == normalize_tool_call(mw.context, request)
             target == from_inputs(mw.context.phase, boundary.url, boundary.repo_path,
                                   boundary.method)
             decision == evaluate_runtime_boundary(target, mw.compiled_rules)
         IN IF decision.blocked_reason # NoMessage
            THEN Outcome(blocked_tool_message(request, decision.blocked_reason[1]), <<>>,
                         record_denial(log, request, target, decision.blocked_reason[1],
                                       decision.applied_rules))
            ELSE Outcome(HandlerResult(request), <<request>>, log)

\* The tool calls an agent issues: web requests by path or absolute URL with or
\* without a method, file reads inside and outside the repo prefix, and globs.
ToolCalls ==
    {ToolCall(id, "web_fetch", path, method, None, None) :
        id \in {"tc1", "tc2"},
        path \in {None, "/", "/admin", "https://API.example.com/admin"},
        method \in {None, "get"}}
    \cup {ToolCall(id, "read_file", None, None, file_path, None) :
             id \in {"tc1", "tc2"}, file_path \in {"/repo/app.py", "/etc/passwd"}}
    \cup {ToolCall(id, "glob", None, None, None, pattern) :
             id \in {"tc1", "tc2"}, pattern \in {"**/*.py", "/repo/*.py"}}

\* The rule lists a middleware is constructed with.
GuardRuleLists ==
    {<<>>,
     <<CompiledRule("avoid", "path", "/admin", {}, None)>>,
     <<CompiledRule("focus", "path", "/admin", {}, None),
       CompiledRule("avoid", "method", "get", {"recon"}, "no reads")>>,
     <<CompiledRule("avoid", "subdomain", "api", {}, None)>>}

\* middleware.py 34-44: the middlewares constructed for the recon phase of a run
Middlewares ==
    {[context |-> [phase |-> "recon", url |-> "https://www.example.com",
                   repo_path |-> "repos/target"],
      compiled_rules |-> rules, allowed_repo_virtual_prefix |-> prefix, constructed |-> TRUE] :
        rules \in GuardRuleLists, prefix \in {None, "/repo"}}

\* No middleware constructed yet.
NoMiddleware ==
    [context |-> [phase |-> "recon", url |-> "https://www.example.com", repo_path |-> "repos/target"],
     compiled_rules |-> <<>>, allowed_repo_virtual_prefix |-> None, constructed |-> FALSE]

\* Most tool calls an agent issues through one middleware.
MaxToolCalls == 2

\* ------------------------------------------------------------------ run command

\* config/models.py AdversaConfig: safety.acknowledgement,
\* safety.network_discovery_enabled, run.workspace_root and run.repos_root
AdversaConfig(acknowledgement, network_discovery_enabled, workspace_root) ==
    [acknowledgement |-> acknowledgement, network_discovery_enabled |-> network_discovery_enabled,
     workspace_root |-> workspace_root, repos_root |-> "repos"]

\* The configuration files of the working directory /work and what load_config
\* reads from each.
ConfigFiles == {"adversa.toml", "strict.toml", "flat.toml"}

load_config(config) ==
    CASE config = "adversa.toml" -> AdversaConfig(TRUE, TRUE, "runs")
      [] config = "strict.toml" -> AdversaConfig(FALSE, FALSE, "runs")
      [] OTHER -> AdversaConfig(FALSE, FALSE, "default")

\* Path(p).expanduser().resolve() in the working directory /work
Resolve(p) ==
    CASE p = "repos" -> "/work/repos"
      [] p = "repos/target" -> "/work/repos/target"
      [] p = "repos/../secrets" -> "/work/secrets"
      [] p = "adversa.toml" -> "/work/adversa.toml"
      [] p = "strict.toml" -> "/work/strict.toml"
      [] p = "flat.toml" -> "/work/flat.toml"
      [] OTHER -> p

\* PurePath.relative_to succeeds
IsRelativeTo(p, root) == root = "/work/repos" /\ p \in {"/work/repos", "/work/repos/target"}

\* security/scope.py 11-22 ensure_repo_in_repos_root: the resolved path, or no
\* value when it raises ScopeViolationError
ensure_repo_in_repos_root(repo_path, repos_root) ==
    IF IsRelativeTo(Resolve(repo_path), Resolve(repos_root))
    THEN <<Resolve(repo_path)>>
    ELSE <<>>

\* urlparse(url): scheme and netloc
UrlScheme(url) ==
    CASE url \in {"https://staging.example.com", "https://PROD.example.com"} -> "https"
      [] url = "ftp://staging.example.com" -> "ftp"
      [] OTHER -> ""

UrlNetloc(url) ==
    CASE url \in {"https://staging.example.com", "ftp://staging.example.com"} -> "staging.example.com"
      [] url = "https://PROD.example.com" -> "PROD.example.com"
      [] OTHER -> ""

\* url.lower()
LowerUrl(url) == IF url = "https://PROD.example.com" THEN "https://prod.example.com" ELSE url

\* any(token in lowered for token in ["prod", "production"])
HasProductionToken(lowered) == lowered = "https://prod.example.com"

\* security/scope.py 25-34 ensure_safe_target_url: the url, or no value when it
\* raises ScopeViolationError
ensure_safe_target_url(url, network_discovery_enabled) ==
    IF UrlScheme(url) \notin {"http", "https"} \/ UrlNetloc(url) = ""
    THEN <<>>
    ELSE IF ~network_discovery_enabled /\ HasProductionToken(LowerUrl(url))
    THEN <<>>
    ELSE <<url>>

\* The arguments of one `adversa run`.
RunArgs ==
    [repo : {"repos/target", "repos/../secrets"},
     url : {"https://staging.example.com", "https://PROD.example.com", "ftp://staging.example.com"},
     workspace : {"default"},
     config : ConfigFiles,
     i_acknowledge : BOOLEAN,
     force : BOOLEAN]

\* artifacts/store.py 12-13: the base directory of a store
StoreBase(workspace_root, workspace, run_id) == <<workspace_root, workspace, run_id>>

\* cli.py 158-166: the payload start_run hands to the workflow
Payload(args, repo_path, safe_url, run_id) ==
    [workspace |-> args.workspace, repo_path |-> repo_path, url |-> safe_url,
     effective_config_path |-> Resolve(args.config), run_id |-> run_id, force |-> args.force]

\* The outcome of run_command: how it ended, the store base its manifest was
\* written to, and the payload of the workflow it started (none: <<>>).
CommandResult(outcome, manifest_at, started) ==
    [outcome |-> outcome, manifest_at |-> manifest_at, started |-> started]

\* run_command that writes the manifest before it checks anything
run_command_writes_first(args, run_id) ==
    LET cfg == load_config(args.config)
        repo_path == ensure_repo_in_repos_root(args.repo, cfg.repos_root)
        safe_url == ensure_safe_target_url(args.url, cfg.network_discovery_enabled)
        base == StoreBase(cfg.workspace_root, args.workspace, run_id)
    IN IF ~(args.i_acknowledge \/ cfg.acknowledgement)
       THEN CommandResult("BadParameter", <<base>>, <<>>)
       ELSE IF repo_path = <<>> \/ safe_url = <<>>
       THEN CommandResult("BadParameter", <<base>>, <<>>)
       ELSE CommandResult("started", <<base>>, <<Payload(args, repo_path[1], safe_url[1], run_id)>>)

\* cli.py 122-173 run_command
run_command(args, run_id) ==
    LET cfg == load_config(args.config)
        repo_path == ensure_repo_in_repos_root(args.repo, cfg.repos_root)
        safe_url == ensure_safe_target_url(args.url, cfg.network_discovery_enabled)
        base == StoreBase(cfg.workspace_root, args.workspace, run_id)
    IN IF ~(args.i_acknowledge \/ cfg.acknowledgement)
       THEN CommandResult("BadParameter", <<>>, <<>>)
       ELSE IF repo_path = <<>> \/ safe_url = <<>>
       THEN CommandResult("BadParameter", <<>>, <<>>)
       ELSE CommandResult("started", <<base>>, <<Payload(args, repo_path[1], safe_url[1], run_id)>>)

\* activities.py 128-137: the parameters of run_phase_activity, taken from a
\* payload except for workspace_root and effective_config_path
ActivityArgs(workspace_root, inp, phase, effective_config_path) ==
    [workspace_root |-> workspace_root, workspace |-> inp.workspace, run_id |-> inp.run_id,
     repo_path |-> inp.repo_path, url |-> inp.url, phase |-> phase, force |-> inp.force,
     effective_config_path |-> effective_config_path]

\* workflows.py 113-124: the positional arguments of execute_activity; the
\* eighth parameter of run_phase_activity keeps its default (activities.py 137).
execute_activity_args(inp, phase) == ActivityArgs(inp.workspace, inp, phase, "adversa.toml")

\* Most run commands issued.
MaxCommands == 2

\* ------------------------------------------------------------------ state

VARIABLES
    status,           \* self.engine.status
    update_config,    \* self._update_config
    pc,               \* where run() is: idle, sleep, activity, config_wait, returned, failed
    phase_idx,        \* the for loop's position in PHASES
    calls,            \* history: the phase of every activity started, in order
    inflight,         \* history: phases whose activity is started and not yet back
    returned_ok,      \* history: phases whose activity returned completed or skipped
    waits,            \* history: number of config-required failures so far
    lastEvent,        \* history: the step taken last
    lastFailure,      \* history: the failure of the last failed activity
    cancelAt,         \* history: pc at the first cancel signal
    pausePending,     \* history: a pause was received and no resume or update_config since
    waitingOn,        \* history: phase whose config-required failure is not yet re-attempted
    disk,             \* the run directory: files, valid outputs, index.json, manifest.json
    drv,              \* the run driving the activity: its position, force flag and attempt
    runs,             \* runs started on the directory so far
    faults,           \* failed activity attempts so far
    lastAttempt,      \* history: phase, force and outcome of the last activity attempt
    fs,               \* content of each artifact file (None: no such file)
    index_json,       \* the files list of artifacts/index.json
    passed,           \* history: the paths passed to append_index so far
    hashed,           \* history: content of each path at the last call that passed it
    registry,         \* PHASE_ANALYZERS as the module holds it
    cur_target,       \* the RuntimeTarget the caller evaluates
    cur_rules,        \* the caller's list of compiled rules
    decisions,        \* the RuleDecisions returned for (cur_target, cur_rules), in order
    boundary_decisions, \* the RuntimeBoundaryDecision returned for them, if any
    middleware,       \* the RulesGuardrailMiddleware of the agent
    journal,          \* history: every tool call with its response and the handler's calls
    guard_log,        \* logs/tool_calls.jsonl and the evidence directory
    commands,         \* history: every run command with its run id and outcome
    manifests,        \* the store bases run_command wrote a manifest.json to
    workflows,        \* the payloads of the workflows started, in order
    activity_idx,     \* how many phases the last workflow has invoked
    activity_calls    \* history: the arguments of every run_phase_activity invocation

runVars == <<status, update_config, pc, phase_idx, calls, inflight, returned_ok,
             waits, lastEvent, lastFailure, cancelAt, pausePending, waitingOn>>

diskVars == <<disk, drv, runs, faults, lastAttempt>>

indexVars == <<fs, index_json, passed, hashed>>

policyVars == <<registry, cur_target, cur_rules, decisions, boundary_decisions>>

guardVars == <<middleware, journal, guard_log>>

cliVars == <<commands, manifests, workflows, activity_idx, activity_calls>>

vars == <<runVars, diskVars, indexVars, policyVars, guardVars, cliVars>>

Suspended == {"idle", "sleep", "activity", "config_wait"}

Init ==
    /\ status = WorkflowStatus
    /\ update_config = FALSE
    /\ pc = "idle"
    /\ phase_idx = 1
    /\ calls = <<>>
    /\ inflight = {}
    /\ returned_ok = {}
    /\ waits = 0
    /\ lastEvent = "init"
    /\ lastFailure = [app |-> FALSE, type |-> None, msg |-> <<>>]
    /\ cancelAt = None
    /\ pausePending = FALSE
    /\ waitingOn = None
    /\ disk = EmptyRunDirectory
    /\ drv = [pc |-> "idle", idx |-> 1, force |-> FALSE, attempt |-> 1]
    /\ runs = 0
    /\ faults = 0
    /\ lastAttempt = [phase |-> None, force |-> FALSE, result |-> None]
    /\ fs = [p \in Range(IndexPaths) |-> None]
    /\ index_json = <<>>
    /\ passed = {}
    /\ hashed = [p \in Range(IndexPaths) |-> None]
    /\ registry = PHASE_ANALYZERS
    /\ cur_target = RuntimeTarget("recon", "www.example.com", "www", "/admin", "repos/target", "GET")
    /\ cur_rules = <<>>
    /\ decisions = <<>>
    /\ boundary_decisions = <<>>
    /\ middleware = NoMiddleware
    /\ journal = <<>>
    /\ guard_log = [audit |-> <<>>, evidence |-> <<>>]
    /\ commands = <<>>
    /\ manifests = {}
    /\ workflows = <<>>
    /\ activity_idx = 0
    /\ activity_calls = {}

\* ------------------------------------------------------------------ run()
\* run() is cut at its awaits: each operator below evaluates the code from one
\* point up to the next await, return or raise, and yields where run() stops.

RECURSIVE ForLoop(_, _), WhileHead(_, _), AfterPauseLoop(_, _)

\* line 102: `for phase in PHASES`, entered at position i; falls through to the
\* return of line 141 after the last phase.
ForLoop(s, i) ==
    IF i > Len(PHASES)
    THEN [pc |-> "returned", idx |-> Len(PHASES), status |-> s]
    ELSE WhileHead(s, i)

\* lines 104-107: the head of `while not phase_done and not canceled` with
\* phase_done false, start_phase, and the first test of the pause loop.
WhileHead(s, i) ==
    IF s.canceled
    THEN ForLoop(s, i + 1)
    ELSE LET s1 == start_phase(s, PHASES[i]) IN
         IF s1.paused /\ ~s1.canceled
         THEN [pc |-> "sleep", idx |-> i, status |-> s1]
         ELSE AfterPauseLoop(s1, i)

\* the pause loop without the cancel check behind it
AfterPauseLoopNoCancelCheck(s, i) == [pc |-> "activity", idx |-> i, status |-> s]

\* lines 109-113: the cancel check behind the pause loop, then the activity.
AfterPauseLoop(s, i) ==
    IF s.canceled
    THEN ForLoop(s, i + 1)
    ELSE [pc |-> "activity", idx |-> i, status |-> s]

\* a result that comes back after cancel is dropped
AfterResultDropsCanceled(s, i, result) ==
    LET s1 == IF result \in {"completed", "skipped"} /\ ~s.canceled
              THEN record_completion(s, PHASES[i])
              ELSE s
    IN ForLoop(s1, i + 1)

\* a result test that knows "completed" only
AfterResultCompletedOnly(s, i, result) ==
    LET s1 == IF result = "completed"
              THEN record_completion(s, PHASES[i])
              ELSE s
    IN ForLoop(s1, i + 1)

\* lines 125-127: a result came back; phase_done = True ends the while loop.
AfterResult(s, i, result) ==
    LET s1 == IF result \in {"completed", "skipped"}
              THEN record_completion(s, PHASES[i])
              ELSE s
    IN ForLoop(s1, i + 1)

\* the config wait ends the phase instead of re-attempting it
AfterConfigWaitSkipsPhase(s, i) == ForLoop(s, i + 1)

\* line 137: `continue` re-enters the while loop of the same phase.
AfterConfigWait(s, i) == WhileHead(s, i)

\* the failure is raised without being recorded
RaiseUnrecorded(s, exc) == s

\* lines 138-139: any other failure is recorded and raised out of run().
RaiseFatal(s, exc) == [s EXCEPT !.last_error = <<exc.msg>>]

\* a wait condition that looks at the flag only
WaitConditionIgnoresCancel(s, flag) == flag

\* The wait of lines 132-135 is over at once when its condition already holds.
WaitConditionHolds(s, flag) == flag \/ s.canceled

\* Move run() to the point r, recording an activity start in the history.
Go(r, ended) ==
    /\ pc' = r.pc
    /\ phase_idx' = r.idx
    /\ status' = r.status
    /\ calls' = IF r.pc = "activity" THEN Append(calls, PHASES[r.idx]) ELSE calls
    /\ inflight' = (inflight \ ended) \cup (IF r.pc = "activity" THEN {PHASES[r.idx]} ELSE {})
    /\ waitingOn' = IF r.pc = "activity" THEN None ELSE waitingOn

\* lines 99-102: run() starts.
Start ==
    /\ pc = "idle"
    /\ Go(ForLoop([status EXCEPT !.artifact_index_path = "artifacts/index.json"], 1), {})
    /\ lastEvent' = "start"
    /\ UNCHANGED <<update_config, returned_ok, waits, lastFailure, cancelAt, pausePending>>
    /\ UNCHANGED <<diskVars, indexVars, policyVars, guardVars, cliVars>>

\* lines 106-110: the 2 s sleep of the pause loop is over.
SleepWake ==
    /\ pc = "sleep"
    /\ IF status.paused /\ ~status.canceled
       THEN UNCHANGED <<pc, phase_idx, status, calls, inflight, waitingOn>>
       ELSE Go(AfterPauseLoop(status, phase_idx), {})
    /\ lastEvent' = "sleep_wake"
    /\ UNCHANGED <<update_config, returned_ok, waits, lastFailure, cancelAt, pausePending>>
    /\ UNCHANGED <<diskVars, indexVars, policyVars, guardVars, cliVars>>

\* lines 113-127: execute_activity returns a result.
ActivityReturns ==
    /\ pc = "activity"
    /\ \E result \in ActivityResults :
          Go(AfterResult(status, phase_idx, result), {PHASES[phase_idx]})
    /\ returned_ok' = returned_ok \cup {PHASES[phase_idx]}
    /\ lastEvent' = "activity_ok"
    /\ UNCHANGED <<update_config, waits, lastFailure, cancelAt, pausePending>>
    /\ UNCHANGED <<diskVars, indexVars, policyVars, guardVars, cliVars>>

\* lines 128-139: execute_activity raises.
ActivityFails ==
    /\ pc = "activity"
    /\ \E exc \in Failures :
          /\ lastFailure' = exc
          /\ IF is_config_required_error(exc)
             THEN /\ waits < MaxConfigWaits
                  /\ waits' = waits + 1
                  /\ lastEvent' = "config_fail"
                  /\ LET s1 == mark_waiting(status, "LLM provider config required") IN
                     IF WaitConditionHolds(s1, update_config)
                     THEN /\ update_config' = FALSE
                          /\ Go(AfterConfigWait(s1, phase_idx), {PHASES[phase_idx]})
                     ELSE /\ pc' = "config_wait"
                          /\ status' = s1
                          /\ inflight' = inflight \ {PHASES[phase_idx]}
                          /\ waitingOn' = PHASES[phase_idx]
                          /\ UNCHANGED <<update_config, phase_idx, calls>>
             ELSE /\ pc' = "failed"
                  /\ status' = RaiseFatal(status, exc)
                  /\ inflight' = inflight \ {PHASES[phase_idx]}
                  /\ lastEvent' = "fatal_fail"
                  /\ UNCHANGED <<update_config, phase_idx, calls, waits, waitingOn>>
    /\ UNCHANGED <<returned_ok, cancelAt, pausePending>>
    /\ UNCHANGED <<diskVars, indexVars, policyVars, guardVars, cliVars>>

\* lines 132-137: the wait condition holds; clear the flag and `continue`.
ConfigWake ==
    /\ pc = "config_wait"
    /\ WaitConditionHolds(status, update_config)
    /\ update_config' = FALSE
    /\ Go(AfterConfigWait(status, phase_idx), {})
    /\ lastEvent' = "config_wake"
    /\ UNCHANGED <<returned_ok, waits, lastFailure, cancelAt, pausePending>>
    /\ UNCHANGED <<diskVars, indexVars, policyVars, guardVars, cliVars>>

\* lines 132-135: the 24 h timeout of wait_condition raises out of run().
ConfigTimeout ==
    /\ pc = "config_wait"
    /\ ~WaitConditionHolds(status, update_config)
    /\ pc' = "failed"
    /\ lastEvent' = "config_timeout"
    /\ UNCHANGED <<status, update_config, phase_idx, calls, inflight, returned_ok,
                   waits, lastFailure, cancelAt, pausePending, waitingOn>>
    /\ UNCHANGED <<diskVars, indexVars, policyVars, guardVars, cliVars>>

\* ------------------------------------------------------------------ signals
\* A signal handler runs while run() is suspended at an await (or not yet begun).

Signal(name, s, flag) ==
    /\ pc \in Suspended
    /\ status' = s
    /\ update_config' = flag
    /\ lastEvent' = name
    /\ cancelAt' = IF name = "cancel" /\ cancelAt = None THEN pc ELSE cancelAt
    /\ pausePending' = CASE name = "pause" -> TRUE
                          [] name \in {"resume", "update_config"} -> FALSE
                          [] OTHER -> pausePending
    /\ UNCHANGED <<pc, phase_idx, calls, inflight, returned_ok, waits, lastFailure, waitingOn>>
    /\ UNCHANGED <<diskVars, indexVars, policyVars, guardVars, cliVars>>

\* lines 75-77
Pause == Signal("pause", pause(status), update_config)

\* a resume that also raises the flag the config wait looks at
ResumeSetsUpdateConfig == Signal("resume", resume(status), TRUE)

\* lines 79-81
Resume == Signal("resume", resume(status), update_config)

\* lines 83-85
Cancel == Signal("cancel", cancel(status), update_config)

\* update_config without mark_config_updated
UpdateConfigKeepsWaiting == Signal("update_config", resume(status), TRUE)

\* lines 87-91
UpdateConfig == Signal("update_config", resume(mark_config_updated(status)), TRUE)

Next ==
    \/ Start
    \/ SleepWake
    \/ ActivityReturns
    \/ ActivityFails
    \/ ConfigWake
    \/ ConfigTimeout
    \/ Pause
    \/ Resume
    \/ Cancel
    \/ UpdateConfig

Spec == Init /\ [][Next]_vars

\* What the runtime guarantees of run(): the workflow task is scheduled, the 2 s
\* timer of the pause loop and the 24 h timer of the config wait fire, a met
\* wait condition wakes the wait, and an activity (10 min timeout, at most
\* maximum_attempts attempts) comes back with a result or a failure.
LiveSpec ==
    /\ Init
    /\ [][Next]_vars
    /\ WF_vars(Start)
    /\ WF_vars(SleepWake)
    /\ WF_vars(ActivityReturns \/ ActivityFails)
    /\ WF_vars(ConfigWake)
    /\ WF_vars(ConfigTimeout)

\* ------------------------------------------------------------------ run_phase_activity

\* What can go wrong in one attempt of the activity: load_config raises on an
\* unreadable config file (line 141), a rule blocks the phase,
\* build_prerecon_report fails (classified transient, config_required or fatal),
\* pre_recon.json or output.json does not validate, or a file operation raises
\* while the evidence file, the index or the manifest is written.
Env ==
    {"ok", "load_config_error", "blocked", "report_transient", "report_config_required", "report_fatal",
     "invalid_prerecon", "invalid_output", "io_evidence", "io_index", "io_manifest"}

PrereconOnly == {"report_transient", "report_config_required", "report_fatal", "invalid_prerecon"}

\* temporalio ApplicationError(message, type=..., non_retryable=...)
ApplicationError(msg, type, non_retryable) ==
    [app |-> TRUE, type |-> type, non_retryable |-> non_retryable, msg |-> msg]

\* An exception raised by a file operation; the activity does not catch it.
OSError(msg) == [app |-> FALSE, type |-> "OSError", non_retryable |-> FALSE, msg |-> msg]

\* tomllib / pydantic reject the config file; the activity does not catch it.
ConfigFileError(msg) ==
    [app |-> FALSE, type |-> "TOMLDecodeError", non_retryable |-> FALSE, msg |-> msg]

NoError == [app |-> FALSE, type |-> None, non_retryable |-> FALSE, msg |-> <<>>]

Raise(d, error) == [disk |-> d, result |-> None, error |-> error]

Return(d, result) == [disk |-> d, result |-> result, error |-> NoError]

\* store.py write_manifest
write_manifest(d, manifest) == [d EXCEPT !.has_manifest = TRUE, !.manifest = manifest]

\* the manifest update without the membership test
mark_completed_always_appends(manifest, phase) ==
    [manifest EXCEPT !.completed_phases = Append(manifest.completed_phases, phase),
                     !.current_phase = phase,
                     !.last_error = NoMessage]

\* activities.py 338-341 (as manifest.py mark_phase_completed)
mark_completed(manifest, phase) ==
    [manifest EXCEPT !.completed_phases =
                         IF phase \notin Range(manifest.completed_phases)
                         THEN Append(manifest.completed_phases, phase)
                         ELSE manifest.completed_phases,
                     !.current_phase = phase,
                     !.last_error = NoMessage]

\* store.py append_index, as far as the set of indexed paths goes
append_index(d, paths) == [d EXCEPT !.index = d.index \cup paths]

\* activities.py 79-125 _write_prerecon_artifacts
write_prerecon_artifacts(d, env) ==
    IF env \in {"report_transient", "report_config_required", "report_fatal"}
    THEN LET kind == CASE env = "report_transient" -> "transient"
                       [] env = "report_config_required" -> "config_required"
                       [] OTHER -> "fatal"
         IN Raise(d, ApplicationError(<<"provider", "failure">>, kind, kind # "transient"))
    ELSE LET d1 == [d EXCEPT !.files = d.files \cup Paths("prerecon", {"pre_recon.json"})] IN
         IF env = "invalid_prerecon"
         THEN Raise(d1, ApplicationError(<<"Invalid", "prerecon", "artifact", "generated.">>,
                                         "invalid_prerecon_output", TRUE))
         ELSE Return([d1 EXCEPT !.files = d1.files \cup Paths("prerecon", {"evidence/baseline.json"})],
                     "written")

\* store.py write_phase_artifacts, and whether the output.json it leaves validates
write_phase_artifacts(d, phase, env) ==
    [d EXCEPT !.files = d.files \cup Paths(phase, CoreFiles),
              !.valid = IF env = "invalid_output" THEN d.valid \ {phase} ELSE d.valid \cup {phase}]

\* a phase end that indexes the files and marks the phase completed before it
\* validates output.json
FinishPhaseRecordsFirst(d, manifest, phase, env) ==
    LET d1 == write_phase_artifacts(d, phase, env)
        d2 == append_index(d1, Paths(phase, CoreFiles))
        marked == mark_completed(manifest, phase)
    IN IF phase \notin d1.valid
       THEN Raise(write_manifest(d2, [marked EXCEPT !.last_error = <<<<"Invalid", "phase", "output">>>>]),
                  ApplicationError(<<"Invalid", "phase", "output">>, "invalid_phase_output", TRUE))
       ELSE Return(write_manifest(d2, marked), "completed")

\* activities.py 279-352: from write_phase_artifacts to the return
FinishPhase(d, manifest, phase, env) ==
    LET d1 == write_phase_artifacts(d, phase, env) IN
    IF phase \notin d1.valid
    THEN Raise(write_manifest(d1, [manifest EXCEPT !.last_error = <<<<"Invalid", "phase", "output">>>>]),
               ApplicationError(<<"Invalid", "phase", "output">>, "invalid_phase_output", TRUE))
    ELSE IF env = "io_evidence"
    THEN Raise(d1, OSError(<<"No", "space", "left">>))
    ELSE LET d2 == IF phase = "prerecon"
                   THEN d1
                   ELSE [d1 EXCEPT !.files = d1.files
                                        \cup Paths(phase, {EvidenceFile(phase)})
                                        \cup Paths(phase, ExtraFiles(phase))]
             index_paths == Paths(phase, CoreFiles \cup ExtraFiles(phase) \cup {EvidenceFile(phase)})
         IN
         IF env = "io_index"
         THEN Raise(d2, OSError(<<"No", "space", "left">>))
         ELSE LET d3 == append_index(d2, index_paths) IN
              IF env = "io_manifest"
              THEN Raise(d3, OSError(<<"No", "space", "left">>))
              ELSE Return(write_manifest(d3, mark_completed(manifest, phase)), "completed")

TargetTypes == HARD_BLOCK_TARGET_TYPES \cup {"path", "method", "analyzer", "tag"}

\* A compiled rule: its action and target type, the phases it is scoped to (none:
\* every phase), and whether fnmatch finds its target in the runtime target.
Rules ==
    [action : {"avoid", "focus"}, target_type : TargetTypes,
     phases : {{}, {"vuln"}}, fnmatch : BOOLEAN]

\* security/rules.py _matches_runtime_target
matches_runtime_target(rule) ==
    IF rule.target_type \in {"phase", "host", "subdomain", "path", "repo_path", "method"}
    THEN rule.fnmatch
    ELSE FALSE

\* security/rules.py _blocked_reason
blocked_reason == <<"Blocked", "by", "avoid", "rule">>

\* security/rules.py evaluate_rules: the blocked_reason of the decision, if any
evaluate_rules(phase, rule) ==
    IF /\ phase_applies(rule, phase)
       /\ rule.action = "avoid"
       /\ rule.target_type \in HARD_BLOCK_TARGET_TYPES
       /\ matches_runtime_target(rule)
    THEN <<blocked_reason>>
    ELSE NoMessage

\* What an attempt meets when load_config and the faults of Env go as `fault`
\* says and the configured rule yields the decision blocked_reason = reason.
Scenario(reason, fault) ==
    IF fault = "load_config_error" THEN fault
    ELSE IF reason # NoMessage THEN "blocked"
    ELSE fault

\* lines 173-185, the rule block
Blocked(d, manifest) ==
    Raise(write_manifest(d, [manifest EXCEPT !.last_error = <<blocked_reason>>]),
          ApplicationError(blocked_reason, "fatal", TRUE))

\* lines 207-352: execute_phase_agent and all that follows it
ExecutePhase(d, manifest, phase, env) ==
    LET d0 == [d EXCEPT !.agent = d.agent \cup {phase}] IN
    IF phase = "prerecon"
    THEN LET r == write_prerecon_artifacts(d0, env) IN
         IF r.error # NoError THEN r ELSE FinishPhase(r.disk, manifest, phase, env)
    ELSE FinishPhase(d0, manifest, phase, env)

\* the skip check in front of the rule block
run_phase_activity_skip_first(d, phase, force, env) ==
    LET manifest == IF d.has_manifest THEN d.manifest ELSE ManifestState IN
    IF env = "load_config_error"
    THEN Raise(d, ConfigFileError(<<"Invalid", "value">>))
    ELSE IF should_skip_phase(d, phase, force)
    THEN Return(d, "skipped")
    ELSE IF env = "blocked"
    THEN Blocked(d, manifest)
    ELSE ExecutePhase(d, manifest, phase, env)

\* activities.py 128-352 run_phase_activity
run_phase_activity(d, phase, force, env) ==
    LET manifest == IF d.has_manifest THEN d.manifest ELSE ManifestState IN
    IF env = "load_config_error"
    THEN Raise(d, ConfigFileError(<<"Invalid", "value">>))
    ELSE IF env = "blocked"
    THEN Blocked(d, manifest)
    ELSE IF should_skip_phase(d, phase, force)
    THEN Return(d, "skipped")
    ELSE ExecutePhase(d, manifest, phase, env)

\* workflows.py PHASE_ACTIVITY_RETRY_POLICY
maximum_attempts == 3

non_retryable_error_types == {"config_required", "fatal"}

Retryable(error) == ~error.non_retryable /\ error.type \notin non_retryable_error_types

\* ------------------------------------------------------------------ runs on a directory

\* cli.py run_command / workflows.py run(): a run starts its phase loop with
\* the force flag of its payload.
StartRun ==
    /\ drv.pc \in {"idle", "ended"}
    /\ runs < MaxRuns
    /\ runs' = runs + 1
    /\ \E force \in BOOLEAN :
          drv' = [pc |-> "running", idx |-> 1, force |-> force, attempt |-> 1]
    /\ UNCHANGED <<disk, faults, lastAttempt>>
    /\ UNCHANGED <<runVars, indexVars, policyVars, guardVars, cliVars>>

\* What the run does with the outcome r of one attempt: the next phase on a
\* result, another attempt under the retry policy, the same phase again behind a
\* config wait, and the end of the run on any other failure.
AfterAttempt(v, r) ==
    IF r.error = NoError
    THEN IF v.idx = Len(PHASES)
         THEN [v EXCEPT !.pc = "ended"]
         ELSE [v EXCEPT !.idx = v.idx + 1, !.attempt = 1]
    ELSE IF Retryable(r.error) /\ v.attempt < maximum_attempts
    THEN [v EXCEPT !.attempt = v.attempt + 1]
    ELSE IF is_config_required_error(r.error)
    THEN [v EXCEPT !.attempt = 1]
    ELSE [v EXCEPT !.pc = "ended"]

\* One attempt of run_phase_activity for the run's current phase.
ExecuteActivity ==
    /\ drv.pc = "running"
    /\ \E env \in {Scenario(evaluate_rules(PHASES[drv.idx], rule), fault) :
                       rule \in Rules, fault \in Env \ {"blocked"}} :
          /\ env \in PrereconOnly => PHASES[drv.idx] = "prerecon"
          /\ env # "ok" => faults < MaxFaults
          /\ LET r == run_phase_activity(disk, PHASES[drv.idx], drv.force, env) IN
             /\ disk' = r.disk
             /\ drv' = AfterAttempt(drv, r)
             /\ faults' = IF r.error # NoError THEN faults + 1 ELSE faults
             /\ lastAttempt' = [phase |-> PHASES[drv.idx], force |-> drv.force,
                                result |-> IF r.error = NoError THEN r.result ELSE r.error.type]
    /\ UNCHANGED runs
    /\ UNCHANGED <<runVars, indexVars, policyVars, guardVars, cliVars>>

\* The run is canceled (or its config wait times out) between two attempts.
StopRun ==
    /\ drv.pc = "running"
    /\ drv' = [drv EXCEPT !.pc = "ended"]
    /\ UNCHANGED <<disk, runs, faults, lastAttempt>>
    /\ UNCHANGED <<runVars, indexVars, policyVars, guardVars, cliVars>>

DiskNext ==
    \/ StartRun
    \/ ExecuteActivity
    \/ StopRun

DiskSpec == Init /\ [][DiskNext]_vars

\* ------------------------------------------------------------------ calls of append_index

\* A phase writes, or writes again, one of its files.
WriteFile ==
    /\ \E p \in Range(IndexPaths), content \in Contents :
          /\ fs[p] # content
          /\ fs' = [fs EXCEPT ![p] = content]
    /\ UNCHANGED <<index_json, passed, hashed>>
    /\ UNCHANGED <<runVars, diskVars, policyVars, guardVars, cliVars>>

\* One call store.append_index(paths) with files that exist.
AppendIndex ==
    /\ \E paths \in PathLists(fs) :
          /\ index_json' = append_index_files(index_json, fs, paths)
          /\ passed' = passed \cup Range(paths)
          /\ hashed' = [p \in Range(IndexPaths) |->
                           IF p \in Range(paths) THEN fs[p] ELSE hashed[p]]
    /\ UNCHANGED fs
    /\ UNCHANGED <<runVars, diskVars, policyVars, guardVars, cliVars>>

IndexNext ==
    \/ WriteFile
    \/ AppendIndex

IndexSpec == Init /\ [][IndexNext]_vars

\* ------------------------------------------------------------------ evaluations

\* The caller turns to another runtime target.
ChooseTarget ==
    /\ \E t \in Targets :
          /\ t # cur_target
          /\ cur_target' = t
    /\ decisions' = <<>>
    /\ boundary_decisions' = <<>>
    /\ UNCHANGED <<registry, cur_rules>>
    /\ UNCHANGED <<runVars, diskVars, indexVars, guardVars, cliVars>>

\* The caller's rule list grows by one compiled rule.
AddRule ==
    /\ Len(cur_rules) < MaxRules
    /\ \E rule \in RuleUniverse : cur_rules' = Append(cur_rules, rule)
    /\ decisions' = <<>>
    /\ boundary_decisions' = <<>>
    /\ UNCHANGED <<registry, cur_target>>
    /\ UNCHANGED <<runVars, diskVars, indexVars, guardVars, cliVars>>

\* One call evaluate_rules(target, rules).
Evaluate ==
    /\ Len(decisions) < MaxEvaluations
    /\ LET r == EvaluateRules(registry, cur_target, cur_rules) IN
          /\ decisions' = Append(decisions, r.decision)
          /\ registry' = r.registry
          /\ cur_rules' = r.rules
    /\ UNCHANGED <<cur_target, boundary_decisions>>
    /\ UNCHANGED <<runVars, diskVars, indexVars, guardVars, cliVars>>

\* One call evaluate_runtime_boundary(target, rules).
EvaluateBoundary ==
    /\ boundary_decisions = <<>>
    /\ boundary_decisions' = <<evaluate_runtime_boundary(cur_target, cur_rules)>>
    /\ UNCHANGED <<registry, cur_target, cur_rules, decisions>>
    /\ UNCHANGED <<runVars, diskVars, indexVars, guardVars, cliVars>>

PolicyNext ==
    \/ ChooseTarget
    \/ AddRule
    \/ Evaluate
    \/ EvaluateBoundary

PolicySpec == Init /\ [][PolicyNext]_vars

\* ------------------------------------------------------------------ tool calls

\* RulesGuardrailMiddleware(context, compiled_rules, allowed_repo_virtual_prefix)
Construct ==
    /\ ~middleware.constructed
    /\ \E mw \in Middlewares : middleware' = mw
    /\ UNCHANGED <<journal, guard_log>>
    /\ UNCHANGED <<runVars, diskVars, indexVars, policyVars, cliVars>>

\* The agent issues one tool call, which passes through wrap_tool_call.
WrapToolCall ==
    /\ middleware.constructed
    /\ Len(journal) < MaxToolCalls
    /\ \E request \in ToolCalls :
          LET out == wrap_tool_call(middleware, request, guard_log) IN
          /\ journal' = Append(journal, [request |-> request, response |-> out.response,
                                         handled |-> out.handled])
          /\ guard_log' = out.log
    /\ UNCHANGED middleware
    /\ UNCHANGED <<runVars, diskVars, indexVars, policyVars, cliVars>>

GuardNext ==
    \/ Construct
    \/ WrapToolCall

GuardSpec == Init /\ [][GuardNext]_vars

\* ------------------------------------------------------------------ adversa run

\* One `adversa run`; its run id is fresh (cli.py 142).
RunCommand ==
    /\ Len(commands) < MaxCommands
    /\ \E args \in RunArgs :
          LET run_id == Len(commands) + 1
              r == run_command(args, run_id)
          IN /\ commands' = Append(commands, [args |-> args, run_id |-> run_id,
                                              outcome |-> r.outcome])
             /\ manifests' = manifests \cup Range(r.manifest_at)
             /\ workflows' = workflows \o r.started
    /\ activity_idx' = 0
    /\ UNCHANGED activity_calls
    /\ UNCHANGED <<runVars, diskVars, indexVars, policyVars, guardVars>>

\* The workflow started last invokes run_phase_activity for its next phase.
InvokeActivity ==
    /\ workflows # <<>>
    /\ commands[Len(commands)].outcome = "started"
    /\ activity_idx < Len(PHASES)
    /\ activity_idx' = activity_idx + 1
    /\ activity_calls' = activity_calls
           \cup {execute_activity_args(workflows[Len(workflows)], PHASES[activity_idx + 1])}
    /\ UNCHANGED <<commands, manifests, workflows>>
    /\ UNCHANGED <<runVars, diskVars, indexVars, policyVars, guardVars>>

CliNext ==
    \/ RunCommand
    \/ InvokeActivity

CliSpec == Init /\ [][CliNext]_vars

\* ------------------------------------------------------------------ claims

Last(s) == s[Len(s)]

Completed == Range(status.completed_phases)

C2_CancelInPause ==
    [][cancelAt = "sleep" =>
          /\ calls' = calls
          /\ status'.completed_phases = status.completed_phases]_vars

\* The run was canceled while paused in front of recon and has returned.
C2_Witness ==
    /\ cancelAt = "sleep"
    /\ pc = "returned"
    /\ status.current_phase = "recon"
    /\ status.completed_phases = <<"intake", "prerecon">>

\* C3: after a cancel signal received while an activity is in flight, the result
\* of that activity is still recorded and no further activity is started.
C3_CancelDuringActivity ==
    [][cancelAt = "activity" =>
          /\ calls' = calls
          /\ (pc = "activity" /\ lastEvent' = "activity_ok") =>
                 /\ PHASES[phase_idx] \in Range(status'.completed_phases)
                 /\ pc' = "returned"]_vars

\* Cancel arrived during intake, intake succeeded and the run returned.
C3_Witness ==
    /\ cancelAt = "activity"
    /\ pc = "returned"
    /\ lastEvent = "activity_ok"
    /\ calls = <<"intake">>
    /\ status.completed_phases = <<"intake">>

\* C4: a config-required failure of the activity of phase P sets
\* waiting_for_config with a reason, leaves current_phase at P and does not add P
\* to completed_phases.
C4_ConfigFailureWaits ==
    [][(pc = "activity" /\ lastEvent' = "config_fail") =>
          /\ is_config_required_error(lastFailure')
          /\ status'.waiting_for_config
          /\ status'.waiting_reason \notin {None, ""}
          /\ status'.current_phase = PHASES[phase_idx]
          /\ status'.completed_phases = status.completed_phases
          /\ PHASES[phase_idx] \notin Range(status'.completed_phases)]_vars

\* recon failed with an untyped "401 Unauthorized" and the run is waiting.
C4_Witness ==
    /\ lastEvent = "config_fail"
    /\ pc = "config_wait"
    /\ ~lastFailure.app
    /\ status.current_phase = "recon"
    /\ status.waiting_for_config

\* C5: update_config received in the config wait on P clears waiting_for_config
\* and waiting_reason; the next activity started is for P; a later phase is
\* started only after the activity of P returned completed or skipped.
C5_UpdateConfigRetriesSamePhase ==
    [][/\ (pc = "config_wait" /\ lastEvent' = "update_config") =>
              /\ ~status'.waiting_for_config
              /\ status'.waiting_reason = None
              /\ update_config'
       /\ (waitingOn # None /\ calls' # calls) => calls' = Append(calls, waitingOn)
       /\ (calls # <<>> /\ calls' # calls /\ Last(calls') # Last(calls)) =>
              Last(calls) \in returned_ok']_vars

\* The wait on prerecon was ended by update_config and prerecon is in flight again.
C5_Witness ==
    /\ lastEvent = "config_wake"
    /\ pc = "activity"
    /\ ~status.canceled
    /\ calls = <<"intake", "prerecon", "prerecon">>

\* C6 as stated: a run suspended in the config wait gets waiting_for_config
\* cleared, or starts another attempt, only through update_config.
C6_OnlyUpdateConfigEndsWait ==
    [][pc = "config_wait" =>
          /\ (status.waiting_for_config /\ ~status'.waiting_for_config) =>
                 lastEvent' = "update_config"
          /\ calls' # calls => update_config]_vars

\* C6 amended: a run suspended in the config wait gets waiting_for_config cleared
\* only by an update_config or a cancel signal, starts another attempt only after
\* an update_config received during the wait, and returns without one after cancel.
C6_UpdateConfigOrCancelEndsWait ==
    [][pc = "config_wait" =>
          /\ (status.waiting_for_config /\ ~status'.waiting_for_config) =>
                 lastEvent' \in {"update_config", "cancel"}
          /\ (~status.waiting_for_config /\ status'.waiting_for_config) => FALSE
          /\ calls' # calls => (update_config /\ ~status.canceled)
          /\ pc' \notin {"config_wait", "failed"} => (update_config \/ status.canceled)
          /\ pc' = "failed" => (lastEvent' = "config_timeout" /\ status' = status)]_vars

\* The wait on intake was ended by cancel and the run returned.
C6_Witness ==
    /\ cancelAt = "config_wait"
    /\ lastEvent = "config_wake"
    /\ pc = "returned"
    /\ calls = <<"intake">>

OtherFields == DOMAIN WorkflowStatus \ {"paused"}

\* C7: pause and resume change no status field but paused.
C7_PauseResumeFrame ==
    /\ \A f \in OtherFields :
          /\ pause(status)[f] = status[f]
          /\ resume(status)[f] = status[f]
          /\ resume(pause(status))[f] = status[f]
    /\ lastEvent \in {"pause", "resume"} => status.paused = (lastEvent = "pause" /\ ~status.canceled)

\* A resume took effect in a run with phases completed and a config wait pending.
C7_Witness ==
    /\ lastEvent = "resume"
    /\ ~status.canceled
    /\ status.waiting_for_config
    /\ Len(status.completed_phases) >= 2

\* C8: a failure that is not config-required is recorded in last_error and ends
\* the run: the phase is not completed and no further activity is started.
C8_FatalFailureTerminates ==
    /\ lastEvent = "fatal_fail" =>
          /\ pc = "failed"
          /\ ~is_config_required_error(lastFailure)
          /\ status.last_error = <<lastFailure.msg>>
          /\ inflight = {}
          /\ Last(calls) = status.current_phase
          /\ status.current_phase \notin Completed
    /\ pc = "failed" => ~ENABLED Next

\* prerecon failed with a typed fatal error whose text holds "401".
C8_Witness ==
    /\ lastEvent = "fatal_fail"
    /\ lastFailure = [app |-> TRUE, type |-> "fatal", msg |-> <<"401", "Unauthorized">>]
    /\ status.completed_phases = <<"intake">>
    /\ status.current_phase = "prerecon"

\* C9: record_completion appends the phase only when it is absent and clears
\* last_error; the status completed_phases never holds a duplicate.
C9_CompletionIdempotent ==
    /\ NoDuplicates(status.completed_phases)
    /\ returned_ok = Completed
    /\ lastEvent = "activity_ok" => status.last_error = NoMessage
    /\ \A p \in Range(PHASES) :
          LET s2 == record_completion(status, p) IN
          /\ s2.last_error = NoMessage
          /\ NoDuplicates(s2.completed_phases)
          /\ s2.completed_phases =
                 IF p \in Completed
                 THEN status.completed_phases
                 ELSE Append(status.completed_phases, p)

\* A phase completed after it had been re-attempted behind a config wait.
C9_Witness ==
    /\ lastEvent = "activity_ok"
    /\ waits >= 1
    /\ calls = <<"intake", "prerecon", "prerecon">>
    /\ status.completed_phases = <<"intake", "prerecon">>

\* s holds only phases, each once, in the order of PHASES.
OrderedSubsequence(s) ==
    /\ Range(s) \subseteq Range(PHASES)
    /\ \A k, l \in 1..Len(s) : k < l => PhaseIndex(s[k]) < PhaseIndex(s[l])

\* C10: the manifest's completed_phases is a duplicate-free subsequence of
\* PHASES, in sequence order, after any sequence of activity attempts.
C10_ManifestOrdered ==
    disk.has_manifest => OrderedSubsequence(disk.manifest.completed_phases)

\* A forced second run completed intake in a directory whose manifest listed
\* prerecon but not intake, which an earlier attempt had only skipped.
C10_Witness ==
    /\ runs = 2
    /\ lastAttempt = [phase |-> "intake", force |-> TRUE, result |-> "completed"]
    /\ disk.manifest.completed_phases = <<"prerecon", "intake">>

\* What the handler of signal `name` leaves behind when it runs on status s
\* with the flag self._update_config = flag (workflows.py 75-91).
Handled(name, s, flag) ==
    CASE name = "pause" -> [status |-> pause(s), update_config |-> flag]
      [] name = "resume" -> [status |-> resume(s), update_config |-> flag]
      [] name = "cancel" -> [status |-> cancel(s), update_config |-> flag]
      [] name = "update_config" ->
             [status |-> resume(mark_config_updated(s)), update_config |-> TRUE]

SignalNames == {"pause", "resume", "cancel", "update_config"}

\* C11: in every reachable state each signal delivered twice in succession
\* leaves the same state as delivered once, and a step that delivers a signal
\* leaves what its handler leaves.
C11_SignalsIdempotent ==
    /\ \A name \in SignalNames :
          LET once == Handled(name, status, update_config)
              twice == Handled(name, once.status, once.update_config)
          IN twice = once
    /\ lastEvent \in SignalNames =>
          Handled(lastEvent, status, update_config) = [status |-> status, update_config |-> update_config]

\* A paused run suspended in the config wait: resume, cancel and update_config
\* each change the state here, and a pause has just been delivered.
C11_Witness ==
    /\ pc = "config_wait"
    /\ lastEvent = "pause"
    /\ status.paused
    /\ status.waiting_for_config
    /\ ~update_config

\* C12: canceled never goes back to false; a pause received after cancel leaves
\* paused false; cancel sets canceled and clears paused, waiting_for_config and
\* waiting_reason.
C12_CancelIsFinal ==
    [][/\ status.canceled => status'.canceled
       /\ (status.canceled /\ lastEvent' = "pause") => ~status'.paused
       /\ lastEvent' = "cancel" =>
              /\ status'.canceled
              /\ ~status'.paused
              /\ ~status'.waiting_for_config
              /\ status'.waiting_reason = None]_vars

\* A pause arrived after the run had been canceled while paused.
C12_Witness ==
    /\ cancelAt = "sleep"
    /\ lastEvent = "pause"
    /\ status.canceled
    /\ ~status.paused

\* C13: a run that returns without any cancel has completed every phase, stands
\* on the last phase and is neither waiting for config nor canceled (the state
\* the claim promises at the return of a run whose activities all come back
\* and whose pauses and config waits are all ended).
C13_ReturnsComplete ==
    (pc = "returned" /\ cancelAt = None) =>
        /\ status.completed_phases = PHASES
        /\ status.current_phase = Last(PHASES)
        /\ ~status.waiting_for_config
        /\ ~status.canceled

\* A run returned with every phase completed, no cancel, and still marked as
\* waiting for config.
C13_Witness ==
    /\ pc = "returned"
    /\ cancelAt = None
    /\ status.completed_phases = PHASES
    /\ status.waiting_for_config
    /\ status.waiting_reason = "LLM provider config required"

\* C14 as stated: after a cancel the run eventually returns its status with
\* canceled = true.
C14_CancelLeadsToReturn ==
    status.canceled ~> (pc = "returned" /\ status.canceled)

\* C14 amended: after a cancel the run eventually stops: it returns its status
\* with canceled = true, or, when the activity in flight at the cancel fails with
\* an error that is not config-required, it ends by raising that failure.
C14_CancelLeadsToStop ==
    /\ status.canceled ~>
           \/ pc = "returned"
           \/ pc = "failed" /\ lastEvent = "fatal_fail" /\ cancelAt = "activity"
    /\ [](pc = "returned" /\ cancelAt # None => status.canceled)
    /\ []((pc = "failed" /\ status.canceled) => status.last_error = <<lastFailure.msg>>)

\* The activity in flight at the cancel failed with a fatal error and the run
\* ended by raising it.
C14_Witness ==
    /\ cancelAt = "activity"
    /\ pc = "failed"
    /\ lastEvent = "fatal_fail"
    /\ status.canceled
    /\ calls = <<"intake", "prerecon">>

\* The step is a failed attempt after which the retry policy runs the same
\* request again.
Retried ==
    /\ faults' = faults + 1
    /\ drv'.pc = "running"
    /\ drv'.idx = drv.idx
    /\ drv'.attempt = drv.attempt + 1

\* C15: a request is attempted at most maximum_attempts times, a failure of type
\* config_required or fatal is never retried, and only a transient failure is
\* followed by a further attempt.
C15_RetryPolicy ==
    [][/\ drv.attempt <= maximum_attempts
       /\ drv'.attempt <= maximum_attempts
       /\ (faults' # faults /\ lastAttempt'.result \in {"config_required", "fatal"}) => ~Retried
       /\ Retried => lastAttempt'.result = "transient"]_vars

\* The intake activity raised OSError and the policy scheduled a second attempt.
C15_Witness ==
    /\ drv.pc = "running"
    /\ drv.attempt = 2
    /\ lastAttempt = [phase |-> "intake", force |-> FALSE, result |-> "OSError"]

\* C16: a failure classified neither transient nor config_required is fatal and
\* not retried: the request is not attempted again and the run ends with it.
C16_UnclassifiedIsFatal ==
    [][(faults' # faults /\ lastAttempt'.result \notin {"transient", "config_required"}) =>
          /\ ~Retried
          /\ drv'.pc = "ended"]_vars

\* A request failed on all three attempts with errors no code classified, the
\* last one raised by load_config, and only then the run ended.
C16_Witness ==
    /\ drv.pc = "ended"
    /\ drv.attempt = maximum_attempts
    /\ faults = maximum_attempts
    /\ lastAttempt.result = "TOMLDecodeError"
    /\ ~disk.has_manifest

\* An avoid rule on phase, host, subdomain or repo_path that is in scope for the
\* phase and matches the runtime target.
HardBlockRules(phase) ==
    {rule \in Rules :
        /\ rule.action = "avoid"
        /\ rule.target_type \in {"phase", "host", "subdomain", "repo_path"}
        /\ phase_applies(rule, phase)
        /\ rule.fnmatch}

\* C17: with such a rule the activity raises a fatal, non-retryable error that
\* carries the blocked reason and leaves it as the manifest's last_error; no
\* agent is invoked and no phase file, output or index entry is written, whether
\* or not a valid output.json exists and whatever the force flag.
C17_BlockedBeforeSkip ==
    \A phase \in Range(PHASES) :
        LET envs == {Scenario(evaluate_rules(phase, rule), "ok") : rule \in HardBlockRules(phase)} IN
        /\ \A rule \in HardBlockRules(phase) : evaluate_rules(phase, rule) = <<blocked_reason>>
        /\ \A env \in envs, force \in BOOLEAN :
               LET r == run_phase_activity(disk, phase, force, env) IN
               /\ r.error = ApplicationError(blocked_reason, "fatal", TRUE)
               /\ ~Retryable(r.error)
               /\ r.disk.has_manifest
               /\ r.disk.manifest.last_error = <<r.error.msg>>
               /\ r.disk.manifest.completed_phases = disk.manifest.completed_phases
               /\ r.disk.agent = disk.agent
               /\ r.disk.files = disk.files
               /\ r.disk.valid = disk.valid
               /\ r.disk.index = disk.index

\* A later run was blocked at recon although a valid recon/output.json from the
\* first run was on disk.
C17_Witness ==
    /\ runs = 2
    /\ lastAttempt = [phase |-> "recon", force |-> FALSE, result |-> "fatal"]
    /\ drv.pc = "ended"
    /\ "recon" \in disk.valid
    /\ disk.manifest.last_error = <<blocked_reason>>
    /\ disk.manifest.completed_phases = <<"intake", "prerecon", "recon">>

\* The phases whose activity has returned completed and whose output.json is
\* still the valid file it wrote.
CompletedOnDisk ==
    {p \in Range(PHASES) :
        /\ p \in Range(disk.manifest.completed_phases)
        /\ <<p, "output.json">> \in disk.files
        /\ p \in disk.valid}

\* C18: once the activity has returned completed for P, another call for P with
\* force = false returns skipped and leaves the run directory as it is, and a
\* call with force = true executes the phase again and returns completed.
C18_RerunSkipsUnlessForced ==
    /\ lastAttempt.result = "completed" => lastAttempt.phase \in CompletedOnDisk
    /\ \A p \in CompletedOnDisk :
          LET again == run_phase_activity(disk, p, FALSE, "ok")
              forced == run_phase_activity(disk, p, TRUE, "ok")
          IN /\ again = Return(disk, "skipped")
             /\ forced.error = NoError
             /\ forced.result = "completed"
             /\ p \in forced.disk.agent
             /\ p \in forced.disk.valid
             /\ Paths(p, CoreFiles) \subseteq forced.disk.index
             /\ forced.disk.manifest.current_phase = p
             /\ p \in Range(forced.disk.manifest.completed_phases)

\* The second run, not forced, skipped prerecon, which the first run completed.
C18_Witness ==
    /\ runs = 2
    /\ lastAttempt = [phase |-> "prerecon", force |-> FALSE, result |-> "skipped"]
    /\ disk.manifest.completed_phases = <<"intake", "prerecon">>
    /\ disk.manifest.current_phase = "prerecon"

\* C19: should_skip_phase is true exactly when force is false and output.json
\* exists and validates; it yields a value for every file state (absent, not a
\* PhaseOutput, valid), and an attempt returns skipped only on that value.
C19_SkipIffValidUnforced ==
    /\ \A phase \in Range(PHASES), force \in BOOLEAN, exists \in BOOLEAN, validates \in BOOLEAN :
          LET out == <<phase, "output.json">>
              d == [disk EXCEPT !.files = IF exists THEN @ \cup {out} ELSE @ \ {out},
                                !.valid = IF validates THEN @ \cup {phase} ELSE @ \ {phase}]
          IN /\ should_skip_phase(d, phase, force) \in BOOLEAN
             /\ should_skip_phase(d, phase, force) <=> (~force /\ exists /\ validates)
    /\ lastAttempt.result = "skipped" =>
          /\ ~lastAttempt.force
          /\ <<lastAttempt.phase, "output.json">> \in disk.files
          /\ lastAttempt.phase \in disk.valid

\* A run without force stands in front of intake, whose output.json from the
\* failed first run exists and does not validate.
C19_Witness ==
    /\ runs = 2
    /\ drv = [pc |-> "running", idx |-> 1, force |-> FALSE, attempt |-> 1]
    /\ <<"intake", "output.json">> \in disk.files
    /\ "intake" \notin disk.valid
    /\ ~should_skip_phase(disk, "intake", FALSE)

\* C20: after any calls of append_index the index holds one entry per path ever
\* passed, ascending by path, each with the digest of the file as it was at the
\* last call that passed it; a call that passes only files unchanged since they
\* were hashed leaves the index as it is, and a call repeated at once changes
\* nothing.
C20_IndexSortedUniqueCurrent ==
    /\ {index_json[k].path : k \in 1..Len(index_json)} = passed
    /\ Len(index_json) = Cardinality(passed)
    /\ \A k, l \in 1..Len(index_json) :
          k < l => PathRank(index_json[k].path) < PathRank(index_json[l].path)
    /\ \A k \in 1..Len(index_json) :
          index_json[k].sha256 = sha256(hashed[index_json[k].path])
    /\ \A paths \in PathLists(fs) :
          LET once == append_index_files(index_json, fs, paths) IN
          /\ append_index_files(once, fs, paths) = once
          /\ (\A k \in 1..Len(paths) : paths[k] \in passed /\ hashed[paths[k]] = fs[paths[k]])
                 => once = index_json

\* Two files are indexed; the first was rewritten after it was hashed, the
\* third was never passed.
C20_Witness ==
    /\ passed = {IndexPaths[1], IndexPaths[2]}
    /\ Len(index_json) = 2
    /\ hashed[IndexPaths[1]] = "one"
    /\ fs[IndexPaths[1]] = "two"
    /\ fs[IndexPaths[3]] = "one"

\* The in-scope avoid rules of the current list whose target type is one of
\* types and which match the current target, by position.
AvoidHits(types) ==
    {k \in 1..Len(cur_rules) :
        /\ cur_rules[k].action = "avoid"
        /\ phase_applies(cur_rules[k], cur_target.phase)
        /\ cur_rules[k].target_type \in types
        /\ matches_target(cur_rules[k], cur_target)}

\* C21: an in-scope avoid rule on phase, host, subdomain or repo_path that
\* matches the target makes evaluate_rules return no analyzers and a non-empty
\* blocked_reason; without such a rule there is no blocked_reason, so an avoid
\* rule on path or method never produces one, whatever it matches.
C21_HardBlockOnly ==
    \A i \in 1..Len(decisions) :
        LET d == decisions[i]
            hard == AvoidHits({"phase", "host", "subdomain", "repo_path"})
        IN /\ hard # {} =>
                 /\ d.selected_analyzers = <<>>
                 /\ d.blocked_reason # NoMessage
                 /\ d.blocked_reason[1] # <<>>
           /\ hard = {} => d.blocked_reason = NoMessage
           /\ d.blocked_reason # NoMessage =>
                 \E k \in hard : d.blocked_reason = <<blocked_reason_for(cur_rules[k], cur_target)>>

\* A recon target matched by an avoid rule on path and, behind it, by an avoid
\* rule on host was evaluated: blocked, by the host rule.
C21_Witness ==
    /\ cur_target.phase = "recon"
    /\ Len(cur_rules) = 2
    /\ 1 \in AvoidHits({"path"})
    /\ 2 \in AvoidHits({"host"})
    /\ Len(decisions) >= 1
    /\ decisions[1].selected_analyzers = <<>>
    /\ decisions[1].blocked_reason = <<blocked_reason_for(cur_rules[2], cur_target)>>

\* The analyzer registered under a name for the current target's phase.
Registered(name) ==
    LET analyzers == PHASE_ANALYZERS[cur_target.phase] IN
    analyzers[CHOOSE k \in 1..Len(analyzers) : analyzers[k].name = name]

\* The in-scope focus rules of the current list, by position.
FocusInScope ==
    {k \in 1..Len(cur_rules) :
        cur_rules[k].action = "focus" /\ phase_applies(cur_rules[k], cur_target.phase)}

\* An analyzer's score: 2 for every in-scope focus rule naming it or one of its
\* tags, 1 for every one on one of its surfaces that matches the target.
Score(name) ==
    LET a == Registered(name) IN
    2 * Cardinality({k \in FocusInScope :
                        \/ cur_rules[k].target_type = "analyzer" /\ cur_rules[k].target = a.name
                        \/ cur_rules[k].target_type = "tag" /\ cur_rules[k].target \in a.tags})
      + Cardinality({k \in FocusInScope :
                        /\ cur_rules[k].target_type \in a.surfaces
                        /\ matches_target(cur_rules[k], cur_target)})

\* C22: for a target that is not hard-blocked, selected_analyzers is ordered by
\* descending focus score, and by ascending name among equal scores.
C22_OrderedByFocusScore ==
    \A i \in 1..Len(decisions) :
        LET d == decisions[i]
            sel == d.selected_analyzers
        IN d.blocked_reason = NoMessage =>
              \A p, q \in 1..Len(sel) :
                  p < q =>
                      \/ Score(sel[p]) > Score(sel[q])
                      \/ /\ Score(sel[p]) = Score(sel[q])
                         /\ NameRank(sel[p]) < NameRank(sel[q])

\* A recon target with a focus rule on the tag modeling and one on its path:
\* the two modeling analyzers score 3 and come first in name order, the
\* registry's first analyzer scores 1 and comes last.
C22_Witness ==
    /\ cur_target.phase = "recon"
    /\ Len(decisions) >= 1
    /\ decisions[1].blocked_reason = NoMessage
    /\ decisions[1].selected_analyzers =
           <<"auth_model_builder", "data_flow_mapper", "attack_surface_mapper">>
    /\ Score("auth_model_builder") = 3
    /\ Score("data_flow_mapper") = 3
    /\ Score("attack_surface_mapper") = 1

\* The first matching in-scope avoid rule of the current list (0: none).
FirstAvoid ==
    LET hits == MatchingRules(cur_target, cur_rules, "avoid") IN
    IF hits = {} THEN 0 ELSE CHOOSE k \in hits : \A l \in hits : k <= l

\* The matching in-scope focus rules the scan reaches: all of them, or those in
\* front of the first matching avoid rule.
FocusReached ==
    {k \in MatchingRules(cur_target, cur_rules, "focus") : FirstAvoid = 0 \/ k < FirstAvoid}

\* C23: evaluate_runtime_boundary blocks with a non-empty reason at the first
\* in-scope matching avoid rule and otherwise returns no blocked_reason and the
\* number of matching focus rules as focus_score; focus rules behind the
\* blocking rule are neither counted nor recorded.
C23_BoundaryFirstAvoidBlocks ==
    \A i \in 1..Len(boundary_decisions) :
        LET b == boundary_decisions[i] IN
        /\ FirstAvoid # 0 =>
              /\ b.blocked_reason = <<blocked_reason_for(cur_rules[FirstAvoid], cur_target)>>
              /\ b.blocked_reason[1] # <<>>
              /\ Range(b.applied_rules) =
                     {to_applied_rule(cur_rules[k]) : k \in FocusReached \cup {FirstAvoid}}
        /\ FirstAvoid = 0 =>
              /\ b.blocked_reason = NoMessage
              /\ b.focus_score = Cardinality(MatchingRules(cur_target, cur_rules, "focus"))
              /\ Range(b.applied_rules) = {to_applied_rule(cur_rules[k]) : k \in FocusReached}
        /\ b.focus_score = Cardinality(FocusReached)

\* The boundary of /admin was checked against an avoid rule on that path
\* followed by a focus rule on it: blocked, the focus rule not scored and not
\* recorded.
C23_Witness ==
    /\ Len(boundary_decisions) = 1
    /\ Len(cur_rules) = 2
    /\ FirstAvoid = 1
    /\ 2 \in MatchingRules(cur_target, cur_rules, "focus")
    /\ boundary_decisions[1].focus_score = 0
    /\ boundary_decisions[1].applied_rules = <<to_applied_rule(cur_rules[1])>>
    /\ boundary_decisions[1].blocked_reason # NoMessage

\* The runtime target a tool call normalizes to, and the boundary decision the
\* middleware's rules give for it.
TargetOf(request) ==
    LET boundary == normalize_tool_call(middleware.context, request) IN
    from_inputs(middleware.context.phase, boundary.url, boundary.repo_path, boundary.method)

DecisionFor(request) == evaluate_runtime_boundary(TargetOf(request), middleware.compiled_rules)

\* C24: the handler is invoked exactly once, with the request as it came, when
\* the call is allowed, and never when evaluate_runtime_boundary blocks the
\* call's normalized target; the blocked call gets an error-status response
\* that carries the reason.
C24_HandlerOnlyWhenAllowed ==
    \A i \in 1..Len(journal) :
        LET call == journal[i]
            decision == DecisionFor(call.request)
            violation == check_filesystem_boundary(middleware, call.request)
        IN /\ (violation = NoMessage /\ decision.blocked_reason = NoMessage) =>
                 /\ call.handled = <<call.request>>
                 /\ call.response = HandlerResult(call.request)
           /\ decision.blocked_reason # NoMessage =>
                 /\ call.handled = <<>>
                 /\ call.response.status = "error"
                 /\ call.response.tool_call_id = call.request.id
                 /\ violation = NoMessage =>
                        call.response.content =
                            <<"Tool call blocked by policy:", decision.blocked_reason[1]>>
           /\ call.response.status = "error" => call.handled = <<>>

\* An agent fetched / and then /admin through a middleware whose rules avoid the
\* path /admin: the first call reached the handler, the second did not and was
\* answered with the reason.
C24_Witness ==
    /\ Len(journal) = 2
    /\ middleware.allowed_repo_virtual_prefix = None
    /\ journal[1].request.path = "/"
    /\ journal[1].handled = <<journal[1].request>>
    /\ journal[1].response.status = "success"
    /\ journal[2].request.path = "/admin"
    /\ DecisionFor(journal[2].request).blocked_reason # NoMessage
    /\ journal[2].handled = <<>>
    /\ journal[2].response.status = "error"

\* C25: every tool call answered with an error-status "blocked by policy"
\* response has a record of the denial in the audit log and a JSON evidence
\* file.
C25_DenialsRecorded ==
    \A i \in 1..Len(journal) :
        LET call == journal[i] IN
        (call.response.status = "error"
            /\ call.response.content[1] = "Tool call blocked by policy:") =>
            /\ \E k \in 1..Len(guard_log.audit) :
                  /\ guard_log.audit[k].event_type = "agent_tool_call_blocked"
                  /\ guard_log.audit[k].tool_call = call.request
            /\ EvidenceName(call.request) \in DOMAIN guard_log.evidence
            /\ guard_log.evidence[EvidenceName(call.request)].tool_call.id = call.request.id

\* A read of /etc/passwd was denied by the repo prefix check: the response is
\* the blocked-by-policy error, the audit log and the evidence directory are
\* empty.
C25_Witness ==
    /\ Len(journal) = 1
    /\ journal[1].request.file_path = "/etc/passwd"
    /\ middleware.allowed_repo_virtual_prefix = "/repo"
    /\ journal[1].response.status = "error"
    /\ journal[1].response.content[1] = "Tool call blocked by policy:"
    /\ journal[1].handled = <<>>
    /\ guard_log.audit = <<>>
    /\ DOMAIN guard_log.evidence = {}

\* What is wrong with a run command, in the claim's terms.
MissingAcknowledgement(cmd) ==
    ~cmd.args.i_acknowledge /\ ~load_config(cmd.args.config).acknowledgement

RepoOutsideRoot(cmd) ==
    ~IsRelativeTo(Resolve(cmd.args.repo), Resolve(load_config(cmd.args.config).repos_root))

UrlFailsSafetyCheck(cmd) ==
    ensure_safe_target_url(cmd.args.url, load_config(cmd.args.config).network_discovery_enabled) = <<>>

\* C26: a run command without acknowledgement, with a repo outside the repos
\* root or with a target URL that fails the safety check fails with no
\* manifest written and no workflow started for it, and no phase of it is ever
\* invoked.
C26_RejectedBeforeAnyEffect ==
    \A i \in 1..Len(commands) :
        LET cmd == commands[i] IN
        (MissingAcknowledgement(cmd) \/ RepoOutsideRoot(cmd) \/ UrlFailsSafetyCheck(cmd)) =>
            /\ cmd.outcome = "BadParameter"
            /\ \A base \in manifests : base[3] # cmd.run_id
            /\ \A k \in 1..Len(workflows) : workflows[k].run_id # cmd.run_id
            /\ \A call \in activity_calls : call.run_id # cmd.run_id

\* A first run was started and invoked a phase; a second, acknowledged and with
\* its repo inside the root, named a production URL and was rejected: still one
\* manifest, one workflow, and the calls of the first run only.
C26_Witness ==
    /\ Len(commands) = 2
    /\ commands[1].outcome = "started"
    /\ commands[2].outcome = "BadParameter"
    /\ ~MissingAcknowledgement(commands[2])
    /\ ~RepoOutsideRoot(commands[2])
    /\ UrlFailsSafetyCheck(commands[2])
    /\ commands[2].args.url = "https://PROD.example.com"
    /\ Cardinality(manifests) = 1
    /\ Len(workflows) = 1
    /\ activity_calls # {}

C28_InvalidOutputFails ==
    [][(faults' = faults + 1 /\ lastAttempt'.result = "invalid_phase_output") =>
          /\ drv'.pc = "ended"
          /\ lastAttempt'.phase \in disk'.agent
          /\ lastAttempt'.phase \notin disk'.valid
          /\ disk'.has_manifest
          /\ disk'.manifest.last_error = <<<<"Invalid", "phase", "output">>>>
          /\ disk'.manifest.completed_phases =
                 (IF disk.has_manifest THEN disk.manifest.completed_phases ELSE <<>>)
          /\ lastAttempt'.phase \notin Range(disk'.manifest.completed_phases)
                 \/ lastAttempt'.phase \in Range(disk.manifest.completed_phases)
          /\ disk'.index = disk.index]_vars

\* The first attempt of prerecon, after intake completed, wrote an output.json
\* that does not validate: the run ended, the manifest and the index hold
\* intake only.
C28_Witness ==
    /\ runs = 1
    /\ lastAttempt.phase = "prerecon"
    /\ lastAttempt.result = "invalid_phase_output"
    /\ drv.pc = "ended"
    /\ drv.attempt = 1
    /\ <<"prerecon", "output.json">> \in disk.files
    /\ "prerecon" \notin disk.valid
    /\ disk.manifest.completed_phases = <<"intake">>
    /\ disk.manifest.last_error = <<<<"Invalid", "phase", "output">>>>
    /\ \A p \in disk.index : p[1] = "intake"
    /\ disk.index # {}

\* The run command that started the run an activity call belongs to.
CommandOf(call) == commands[CHOOSE i \in 1..Len(commands) : commands[i].run_id = call.run_id]

\* C29: every invocation of run_phase_activity carries the workspace_root,
\* workspace, run_id, repo_path, url, force and effective_config_path of the
\* run as it was started, so the phase works in the directory whose manifest
\* the run command wrote.
C29_ActivityGetsRunInputs ==
    \A call \in activity_calls :
        LET cmd == CommandOf(call) IN
        /\ cmd.outcome = "started"
        /\ call.workspace = cmd.args.workspace
        /\ call.repo_path = Resolve(cmd.args.repo)
        /\ call.url = cmd.args.url
        /\ call.force = cmd.args.force
        /\ call.phase \in Range(PHASES)
        /\ call.workspace_root = load_config(cmd.args.config).workspace_root
        /\ call.effective_config_path = Resolve(cmd.args.config)
        /\ StoreBase(call.workspace_root, call.workspace, call.run_id) \in manifests

\* A run started with strict.toml (workspace_root "runs") in the workspace
\* default invoked intake: the activity was handed the workspace name as its
\* workspace_root and the default config path, and works in a directory the run
\* command wrote no manifest to.
C29_Witness ==
    /\ Len(commands) = 1
    /\ commands[1].outcome = "started"
    /\ commands[1].args.config = "strict.toml"
    /\ manifests = {StoreBase("runs", "default", 1)}
    /\ \E call \in activity_calls :
          /\ call.phase = "intake"
          /\ call.workspace_root = "default"
          /\ call.effective_config_path = "adversa.toml"
          /\ StoreBase(call.workspace_root, call.workspace, call.run_id) \notin manifests

\* The in-scope avoid rules of the current list, by position.
AvoidInScope ==
    {k \in 1..Len(cur_rules) :
        cur_rules[k].action = "avoid" /\ phase_applies(cur_rules[k], cur_target.phase)}

\* The names of the analyzers registered for the current phase that no in-scope
\* avoid rule names, tags or matches on one of their surfaces.
Kept ==
    {a.name : a \in {b \in Range(PHASE_ANALYZERS[cur_target.phase]) :
                        \A k \in AvoidInScope :
                            /\ ~(cur_rules[k].target_type = "analyzer" /\ cur_rules[k].target = b.name)
                            /\ ~(cur_rules[k].target_type = "tag" /\ cur_rules[k].target \in b.tags)
                            /\ ~(cur_rules[k].target_type \in b.surfaces
                                    /\ matches_target(cur_rules[k], cur_target))}}

\* The current rules without those whose phase scope excludes the target's phase.
RulesInScope ==
    LET InScope(rule) == phase_applies(rule, cur_target.phase) IN SelectSeq(cur_rules, InScope)

\* C30: for a target that is not hard-blocked, selected_analyzers holds exactly
\* the registered analyzers no in-scope avoid rule excludes, each once; rules
\* scoped to other phases remove nothing.
C30_SelectedAreTheKept ==
    \A i \in 1..Len(decisions) :
        LET d == decisions[i] IN
        d.blocked_reason = NoMessage =>
            /\ Range(d.selected_analyzers) = Kept
            /\ Len(d.selected_analyzers) = Cardinality(Kept)
            /\ d.selected_analyzers =
                   EvaluateRules(PHASE_ANALYZERS, cur_target, RulesInScope).decision.selected_analyzers

\* The vuln target /admin under an avoid rule on that path and an avoid rule on
\* the tag safe scoped to recon: the two analyzers with a path surface are
\* gone, dependency_review stays although it is tagged safe.
C30_Witness ==
    /\ cur_target.phase = "vuln"
    /\ cur_target.path = "/admin"
    /\ Len(cur_rules) = 2
    /\ \E k \in 1..2 : cur_rules[k].target_type = "path" /\ k \in AvoidInScope
    /\ \E k \in 1..2 : /\ cur_rules[k].action = "avoid"
                       /\ cur_rules[k].target_type = "tag"
                       /\ cur_rules[k].target = "safe"
                       /\ k \notin AvoidInScope
    /\ Len(decisions) >= 1
    /\ decisions[1].blocked_reason = NoMessage
    /\ decisions[1].selected_analyzers = <<"dependency_review">>

\* C31: a resume signal received while the run is suspended in the config wait
\* with waiting_for_config true leaves waiting_for_config true and
\* waiting_reason as it was, leaves the wait condition false (so the wait is not
\* woken), and starts no attempt of the phase.
C31_ResumeKeepsWaiting ==
    [][(pc = "config_wait" /\ status.waiting_for_config /\ lastEvent' = "resume") =>
          /\ status'.waiting_for_config
          /\ status'.waiting_reason = status.waiting_reason
          /\ status'.waiting_reason # None
          /\ ~WaitConditionHolds(status', update_config')
          /\ pc' = "config_wait"
          /\ waitingOn' = waitingOn
          /\ calls' = calls]_vars

\* A resume was delivered to a run waiting for config behind the recon failure.
C31_Witness ==
    /\ lastEvent = "resume"
    /\ pc = "config_wait"
    /\ status.waiting_for_config
    /\ status.waiting_reason = "LLM provider config required"
    /\ waitingOn = "recon"
    /\ ~ENABLED ConfigWake

\* C32: waiting_for_config is true only while run() is suspended in the config
\* wait (or has ended in it by the wait's timeout): no phase activity is started
\* or in flight while it is true, and a run that has returned does not report it.
C32_WaitingOnlyInConfigWait ==
    status.waiting_for_config =>
        /\ inflight = {}
        /\ pc # "activity"
        /\ \/ pc = "config_wait"
           \/ pc = "failed" /\ lastEvent = "config_timeout"

\* The intake activity is in flight again, started right behind its
\* config-required failure, while the status reports waiting_for_config.
C32_Witness ==
    /\ pc = "activity"
    /\ inflight = {"intake"}
    /\ calls = <<"intake", "intake">>
    /\ lastEvent = "config_fail"
    /\ status.waiting_for_config
    /\ ~status.canceled

\* C33: after a pause signal no phase attempt is started until a resume or an
\* update_config signal has been received after that pause, wherever the pause
\* arrived (before the run began, in the pause loop, during an activity or in
\* the config wait); none is started once the run is canceled.
C33_PauseHoldsAttempts ==
    [][(pausePending \/ status.canceled) => calls' = calls]_vars

\* A pause arrived during the intake activity, no resume or update_config
\* followed, the activity failed config-required and is in flight again.
C33_Witness ==
    /\ pausePending
    /\ ~status.canceled
    /\ lastEvent = "config_fail"
    /\ pc = "activity"
    /\ calls = <<"intake", "intake">>

\* C34: once canceled is true the status reports neither waiting_for_config nor
\* a waiting_reason, whatever the activity in flight at the cancel does later.
C34_CanceledNeverWaiting ==
    status.canceled =>
        /\ ~status.waiting_for_config
        /\ status.waiting_reason = None

\* The cancel arrived during the prerecon activity, which then failed
\* config-required; the run returned canceled and marked as waiting.
C34_Witness ==
    /\ cancelAt = "activity"
    /\ lastEvent = "config_fail"
    /\ pc = "returned"
    /\ status.canceled
    /\ status.waiting_for_config
    /\ status.waiting_reason = "LLM provider config required"
    /\ calls = <<"intake", "prerecon">>

\* C35: whenever run() ends by propagating a failure (a phase failure that is
\* not config-required, or the timeout of the config wait), last_error is set.
C35_FailureLeavesLastError ==
    pc = "failed" =>
        /\ lastEvent \in {"fatal_fail", "config_timeout"}
        /\ status.last_error # NoMessage

\* The config wait behind the recon failure ended by its timeout and the run
\* failed with last_error unset.
C35_Witness ==
    /\ pc = "failed"
    /\ lastEvent = "config_timeout"
    /\ waitingOn = "recon"
    /\ is_config_required_error(lastFailure)
    /\ status.last_error = NoMessage
    /\ status.waiting_for_config

\* Every artifact of a phase: the three core files, the phase's extra files and
\* its evidence file.
ArtifactsOf(phase) == Paths(phase, CoreFiles \cup ExtraFiles(phase) \cup {EvidenceFile(phase)})

\* C36: whenever run_phase_activity returns completed or skipped for phase P,
\* every artifact of P exists in the run directory, each is listed in the
\* index, and P is in the completed_phases of the manifest on disk, also when
\* an earlier attempt of P failed part-way and was retried.
C36_ReturnedPhaseIsWhole ==
    lastAttempt.result \in {"completed", "skipped"} =>
        /\ ArtifactsOf(lastAttempt.phase) \subseteq disk.files
        /\ ArtifactsOf(lastAttempt.phase) \subseteq disk.index
        /\ disk.has_manifest
        /\ lastAttempt.phase \in Range(disk.manifest.completed_phases)

\* The first attempt of intake failed writing its evidence file; the retry
\* returned skipped with the extra files, the index and the manifest missing.
C36_Witness ==
    /\ runs = 1
    /\ faults = 1
    /\ lastAttempt = [phase |-> "intake", force |-> FALSE, result |-> "skipped"]
    /\ <<"intake", "output.json">> \in disk.files
    /\ <<"intake", "plan.json">> \notin disk.files
    /\ disk.index = {}
    /\ ~disk.has_manifest

\* C37: in every reachable state of the orchestrator, waiting_for_config is
\* true if and only if waiting_reason is non-null.
C37_WaitingIffReason ==
    status.waiting_for_config <=> (status.waiting_reason # None)

\* The run waits for config a second time: the mark was set, cleared by
\* update_config, and set again by the next config-required failure.
C37_Witness ==
    /\ waits = 2
    /\ pc = "config_wait"
    /\ lastEvent = "config_fail"
    /\ status.waiting_for_config
    /\ status.waiting_reason = "LLM provider config required"
    /\ Len(calls) >= 3

\* C38: in every reachable state of the orchestrator, canceled = true implies
\* paused = false, whatever the order of the signals and phase outcomes.
C38_CanceledNotPaused ==
    status.canceled => ~status.paused

\* A run paused in the config wait was canceled, and a pause signal arrived
\* after the cancel: it is canceled, not paused.
C38_Witness ==
    /\ cancelAt = "config_wait"
    /\ lastEvent = "pause"
    /\ pausePending
    /\ status.canceled
    /\ ~status.paused

\* The first k phases of the fixed sequence.
Preceding(k) == SubSeq(PHASES, 1, k)

\* C39: whenever the activity of phase P is started, completed_phases is
\* exactly the list of the phases before P in PHASES; completed_phases is at
\* every moment a prefix of PHASES, and current_phase never moves backwards.
C39_CompletedIsPrefix ==
    [][/\ calls' # calls =>
              /\ pc' = "activity"
              /\ status'.current_phase = Last(calls')
              /\ status'.completed_phases = Preceding(PhaseIndex(Last(calls')) - 1)
       /\ \E k \in 0..Len(PHASES) : status'.completed_phases = Preceding(k)
       /\ PhaseIndex(status'.current_phase) >= PhaseIndex(status.current_phase)]_vars

\* The vuln activity is started in a run that re-attempted one phase behind a
\* config wait.
C39_Witness ==
    /\ pc = "activity"
    /\ lastEvent \in {"activity_ok", "sleep_wake"}
    /\ Last(calls) = "vuln"
    /\ Len(calls) = 5
    /\ waits = 1
    /\ status.completed_phases = <<"intake", "prerecon", "recon">>

\* C40: for every target and rule list, when evaluate_rules returns a
\* blocked_reason, evaluate_runtime_boundary on the same target and rules
\* returns a (non-empty) blocked_reason too: no tool call is authorized for a
\* target whose phase is hard-blocked.
C40_PhaseBlockImpliesBoundaryBlock ==
    /\ EvaluateRules(registry, cur_target, cur_rules).decision.blocked_reason # NoMessage =>
           evaluate_runtime_boundary(cur_target, cur_rules).blocked_reason # NoMessage
    /\ \A i \in 1..Len(decisions), j \in 1..Len(boundary_decisions) :
           decisions[i].blocked_reason # NoMessage =>
               /\ boundary_decisions[j].blocked_reason # NoMessage
               /\ boundary_decisions[j].blocked_reason[1] # <<>>
               /\ boundary_decisions[j].applied_rules # <<>>

\* Both decisions were taken for a target behind an avoid rule on its path and
\* an avoid rule on its host: the phase is blocked by the host rule, the tool
\* call by the path rule in front of it.
C40_Witness ==
    /\ Len(cur_rules) = 2
    /\ cur_rules[1].target_type = "path"
    /\ cur_rules[2].target_type = "host"
    /\ Len(decisions) >= 1
    /\ Len(boundary_decisions) = 1
    /\ decisions[1].blocked_reason = <<blocked_reason_for(cur_rules[2], cur_target)>>
    /\ boundary_decisions[1].blocked_reason = <<blocked_reason_for(cur_rules[1], cur_target)>>

====
